---- MODULE Spec2Model ----
(***************************************************************************)
(* The App lifecycle engine (core/app.ts) driven by its callers: the API   *)
(* handlers (route/api.ts) and the health check of AppManager              *)
(* (core/manager.ts).                                                      *)
(*                                                                         *)
(* Every async lifecycle method is a call frame that advances from one     *)
(* await to the next; what lies between two awaits is one step.  An await  *)
(* on a promise that is already settled (await this.stop() when stop()     *)
(* returned without suspending, await this.uninstall(), await this.run())  *)
(* resumes in the same macrotask and is part of the step.  The awaits that *)
(* suspend are: the module import, the user init() and stop() hooks, the   *)
(* race of user run() against delay(1000), and, in user code, wrapper(p).  *)
(*                                                                         *)
(* User code is a module shaped like app/naci.js: run() is one loop whose  *)
(* awaits all go through wrapper.                                          *)
(***************************************************************************)
EXTENDS Integers, FiniteSets, Sequences, TLC

\* ------------------------------------------------------------------ bounds
MaxCalls == 2            \* lifecycle calls in flight on the App at once
MaxRuns == 2             \* user run() invocations still unsettled at once
MaxLogs == 2             \* ticks that log the exceeded cap while the App stays STOPPED
MaxRestarts == 1         \* restart() through the API is cut off at this restartCount

\* ------------------------------------------------------- program constants
maxRestartAttempts == 3  \* AppManagerConfig.maxRestartAttempts default

Calls == 1..MaxCalls
Runs == 1..MaxRuns
NoRun == 0

AppState == {"UNINITIALIZED", "INITIALIZED", "STOPPED", "RUNNING", "STOPPING"}

\* error messages (getError(e))
NoError == "none"
AppStopped == "App stopped"
UserError == "user error"
LoadFailed == "Failed to load app module"
InitFailed == "Failed to initialize app"

VARIABLES
    appState,       \* App.$appState
    mod,            \* App.$mod is set
    currentInfo,    \* App.$currentInfo is set
    stopPromise,    \* the state of the promise App.$stopPromise holds now
    restartCount,   \* App.$stats.restartCount
    lastError,      \* App.$stats.lastError
    uruns,          \* the invocations of the user module's run() not yet settled
    calls,          \* the lifecycle calls in flight, one frame per slot
    autoRestart,    \* AppManagerConfig.autoRestart
    healthRestarts, \* how many times the health check has invoked restart()
    healthLogs,     \* how many ticks have logged 'exceeded max restart attempts'
                    \* since the App was last not STOPPED
    stats,          \* App.$stats.startTime and uptime: which run interval is added
    event,          \* what the last step let its callers observe
    con,            \* the Console of the App: its log queue and the events it emitted
    pipe,           \* a Pipe over a connection, the bytes it reads and writes
    srv,            \* a server connection: its HandlerClass loop and its engine
    eng,            \* an HTTP engine and the byte stream it writes and reads
    rt,             \* a Router: its route trie and the result of matchroute
    sub             \* a subscriber of GET /@api/logs/:name and what it was sent

vars == <<appState, mod, currentInfo, stopPromise, restartCount, lastError,
          uruns, calls, autoRestart, healthRestarts, healthLogs, stats, event,
          con, pipe, srv, eng, rt, sub>>

\* ----------------------------------------------------- Console (console.ts)
maxLogQueueLength == 20  \* Console.$maxLogQueueLength
maxLength == 65536       \* readline(maxLength = 65536)
chunkLineMax == 2        \* readChunk: readline(2) after the data of a chunk

\* new Console(): an empty log queue; `written` counts the messages printed so
\* far (each message is told from the others by its uuid), `emitted` is the
\* sequence of emit() calls
NewConsole == [queue |-> <<>>, written |-> 0, emitted |-> <<>>]

\* ------------------------------------------------------------ Pipe (pipe.ts)
\* new Pipe(conn): `input` is what the connection has yet to deliver, `buffer`
\* the bytes of $buffer from $bufferStart to $bufferEnd, `chunks` the bytes the
\* readline in progress has collected, `lines` what the readline calls have
\* returned so far, `stream` the whole byte stream of the connection, `max`
\* the maxLength its callers pass to readline
NewPipe == [stream |-> <<>>, input |-> <<>>, buffer |-> <<>>, chunks |-> <<>>,
            lines |-> <<>>, pc |-> "scan", max |-> maxLength]

\* ------------------------------------- server connection (route/handler.ts)
\* new HandlerClass(pipe): the engine fields the connection loop reads and
\* writes ($state, $sent, $keepalive, protocol, the pipe's $closed), the
\* position of HandlerClass.handle (`pc`), its local `looped`, the work the loop
\* left running without awaiting it (`writing`: a response still being written,
\* `reading`: a readBody() still collecting the body), what the last reuse()
\* did, how many status lines have been written since reuse() was last called
\* (`lines`) and the code of the last of them (`status`, 0 for none), and which
\* handler the request in hand was routed to (`handler`)
NewConnection ==
    [pc |-> "while", state |-> "IDLE", sent |-> FALSE, keepalive |-> TRUE,
     protocol |-> "HTTP", closed |-> FALSE, looped |-> 0, hasBody |-> FALSE,
     writing |-> FALSE, reading |-> FALSE, reuse |-> "none", lines |-> 0,
     status |-> 0, handler |-> "none"]

\* ------------------------------------------------ HTTP engine (client.ts)
\* an engine that no scenario has set up yet
NewEngine == [mode |-> "none"]

\* ------------------------------------------------------- Router (router.ts)
\* new Router(): the trie of one method with its root only, no route
\* registered, nothing matched. A node is named by the edges from the root to
\* it (a static segment, ":" for the parameter child, "*" for the wildcard
\* child); `handler` gives the route whose handler a node holds (0 for none),
\* `paramname` the name kept in node.paramchild
NewRouter == [routes |-> <<>>, nodes |-> {<<>>}, handler |-> <<>>,
              paramname |-> <<>>, matched |-> FALSE, path |-> <<>>,
              result |-> [handler |-> 0]]

\* ------------------------------------------- App.$stats (startTime, uptime)
\* Times are not modelled, the pairing of run and stop is: `open` says that
\* $stats.startTime is the start of a run interval that has not been added to
\* uptime, `stale` holds the calls suspended at the user stop() hook that
\* entered stop() before $stats.startTime was last set.  `timed` says whether
\* the specification follows these two fields at all.
NewStats == [timed |-> FALSE, open |-> FALSE, stale |-> {}]

\* ------------------------------------ GET /@api/logs/:name (main.ts, a client)
\* the handler of one subscriber: `pc` is where it stands, `backlog` the
\* messages of the event with id 0, `events` the ids of the later events
NewSubscriber == [pc |-> "none", backlog |-> <<>>, events |-> <<>>]

\* the App object and the user code it runs, so that the method bodies compose
Self ==
    [appState |-> appState, mod |-> mod, currentInfo |-> currentInfo,
     stopPromise |-> stopPromise, restartCount |-> restartCount,
     lastError |-> lastError, uruns |-> uruns]

Idle == [op |-> "none", pc |-> "idle", run |-> NoRun, fresh |-> FALSE]
NoUserRun == [st |-> "free", tok |-> "none"]
NoEvent == [op |-> "none", res |-> "none", v |-> "none", w |-> "none", rej |-> "none"]

Awaiting(u, r) == u[r].st = "awaiting"

\* the stop promise that the pending wrapper call of run r holds is resolved.
\* A promise that is no longer this.$stopPromise can never be resolved later:
\* "old" = replaced while pending, "cancelled" = replaced after it was resolved.
HoldsResolved(w, r) ==
    \/ w.uruns[r].tok = "cancelled"
    \/ w.uruns[r].tok = "current" /\ w.stopPromise = "Set"

\* user run() r has a reaction queued: its wrapper call is to be rejected, or
\* run() has thrown before it suspended and the race of App.run is to reject
Queued(w, r) ==
    \/ w.uruns[r].st = "threw"
    \/ Awaiting(w.uruns, r) /\ HoldsResolved(w, r)

\* the microtask queue is empty: no user run() has a reaction queued and no
\* method is about to resume from an await on a stop() that has returned
MicroQuiet(w, cs) ==
    /\ \A r \in Runs : ~Queued(w, r)
    /\ \A c \in DOMAIN cs : cs[c].pc # "afterStop"

Min(S) == CHOOSE x \in S : \A y \in S : x <= y

\* a faulty resetStopPromise, which keeps the promise it should replace
resetStopPromise_keeps(w) == w

\* resetStopPromise: $stopPromise becomes a new, pending promise; the wrapper
\* calls that are pending keep the promise they read when they were called
\* (the wrapper closure reads this.$stopPromise at each call, so replacing
\* $wrapper changes nothing)
resetStopPromise(w) ==
    [w EXCEPT !.stopPromise = "Unset",
              !.uruns = [r \in Runs |->
                  IF Awaiting(w.uruns, r) /\ w.uruns[r].tok = "current"
                  THEN [w.uruns[r] EXCEPT !.tok = IF w.stopPromise = "Set"
                                                  THEN "cancelled" ELSE "old"]
                  ELSE w.uruns[r]]]

\* the catch block of the wrapper: what it throws for a caught `error`
wrapperCatch(state, error) ==
    IF state = "STOPPING" \/ state = "STOPPED" THEN AppStopped ELSE error

\* the result of the part of a method that runs up to its next await: the App
\* after it, where the frame stands (pc "idle": the call is over, with result
\* res; pc "unmodelled": one more user run() than MaxRuns would be suspended),
\* and the user run() the frame races against
Out(w, pc, res, run) == [w |-> w, pc |-> pc, res |-> res, run |-> run]

\* what the user module's run() does when it is invoked: it suspends in
\* wrapper, throws (or rejects) before it has suspended, or returns at once
Behaviours == {"loop", "throw", "return"}

FreeRuns(u) == {r \in Runs : u[r].st = "free"}

\* the catch block of App.run, entered when the race rejects with `error`
runCatch(w, error) == [w EXCEPT !.lastError = error, !.appState = "STOPPED"]

\* App.run up to `await Promise.race([this.$mod.run(), delay(1000)])`
runSync(w, beh) ==
    IF w.appState = "RUNNING" THEN Out(w, "idle", "ok", NoRun)
    ELSE IF ~w.mod \/ ~w.currentInfo THEN Out(w, "idle", "err", NoRun)
    ELSE IF w.appState # "INITIALIZED" /\ w.appState # "STOPPED"
    THEN Out(w, "idle", "err", NoRun)
    ELSE LET w1 == resetStopPromise([w EXCEPT !.appState = "RUNNING"])
             r == IF FreeRuns(w1.uruns) = {} THEN NoRun ELSE Min(FreeRuns(w1.uruns))
         IN  CASE beh = "return" -> Out(w1, "idle", "ok", NoRun)
               [] r = NoRun -> Out(w, "unmodelled", "none", NoRun)
               [] beh = "loop" ->
                    Out([w1 EXCEPT !.uruns[r] = [st |-> "awaiting", tok |-> "current"]],
                        "race", "none", r)
               [] beh = "throw" ->
                    Out([w1 EXCEPT !.uruns[r] = [st |-> "threw", tok |-> "none"]],
                        "race", "none", r)

\* App.stop up to `await this.$mod.stop()`
stopSync(w) ==
    IF w.appState = "STOPPED" \/ w.appState = "UNINITIALIZED"
    THEN Out(w, "idle", "ok", NoRun)
    ELSE IF w.appState = "RUNNING" /\ w.mod
    THEN Out([w EXCEPT !.appState = "STOPPING", !.stopPromise = "Set"],
             "stopHook", "none", NoRun)
    ELSE Out(w, "idle", "ok", NoRun)

\* a faulty stop, whose catch block records the error and leaves the state
stopAfterHook_noCatchState(w, ok) ==
    IF ok THEN Out([w EXCEPT !.appState = "STOPPED"], "idle", "ok", NoRun)
    ELSE Out([w EXCEPT !.lastError = UserError], "idle", "err", NoRun)

\* App.stop after the user stop() hook has settled
stopAfterHook(w, ok) ==
    IF ok THEN Out([w EXCEPT !.appState = "STOPPED"], "idle", "ok", NoRun)
    ELSE Out([w EXCEPT !.lastError = UserError, !.appState = "STOPPED"],
             "idle", "err", NoRun)

\* App.restart after `await this.stop()` has returned
restartAfterStop(w, beh) ==
    runSync(resetStopPromise([w EXCEPT !.restartCount = @ + 1]), beh)

\* App.restart up to its first suspension
restartSync(w, beh) ==
    LET s == stopSync(w)
    IN  IF s.pc = "stopHook" THEN s ELSE restartAfterStop(s.w, beh)

\* App.uninstall after the stop() it awaited (if any) has returned
uninstallAfterStop(w) ==
    Out([w EXCEPT !.mod = FALSE, !.currentInfo = FALSE, !.appState = "UNINITIALIZED"],
        "idle", "ok", NoRun)

\* App.uninstall up to its first suspension
uninstallSync(w) ==
    IF w.mod
    THEN IF w.appState = "RUNNING" THEN stopSync(w) ELSE uninstallAfterStop(w)
    ELSE Out(w, "idle", "ok", NoRun)

\* a faulty guard of init, which lets a RUNNING app through
initForbidden_stopping(w) == w.appState = "STOPPING"

\* App.init refuses a RUNNING app
initForbidden(w) == w.appState = "RUNNING"

\* App.init up to `module = await import(modPath)`
initSync(w) ==
    IF initForbidden(w) THEN Out(w, "idle", "err", NoRun)
    ELSE LET s == uninstallSync(w)
         IN  IF s.pc = "stopHook" THEN s ELSE Out(s.w, "import", "none", NoRun)

\* App.init after the import has settled: `load` is whether the import gave a
\* module with a default-export constructor, `ctor` whether `new` returned
initAfterImport(w, load, ctor) ==
    IF ~load THEN Out([w EXCEPT !.lastError = LoadFailed], "idle", "err", NoRun)
    ELSE IF ~ctor
    THEN Out([w EXCEPT !.lastError = InitFailed, !.mod = FALSE, !.currentInfo = FALSE],
             "idle", "err", NoRun)
    ELSE Out([w EXCEPT !.currentInfo = TRUE, !.mod = TRUE], "userInit", "none", NoRun)

\* App.init after the user init() hook has settled
initAfterHook(w, ok) ==
    IF ok THEN Out(resetStopPromise([w EXCEPT !.appState = "INITIALIZED"]),
                   "idle", "ok", NoRun)
    ELSE Out([w EXCEPT !.lastError = InitFailed, !.mod = FALSE, !.currentInfo = FALSE],
             "idle", "err", NoRun)

\* the method that awaited stop() resumes once stop() has returned (when
\* stop() throws, restart, uninstall and through it init rethrow; the catch
\* block of uninstall stores the same lastError again)
afterStop(op, w, beh) ==
    CASE op = "restart" -> restartAfterStop(w, beh)
      [] op = "uninstall" -> uninstallAfterStop(w)
      [] op = "init" -> Out(uninstallAfterStop(w).w, "import", "none", NoRun)

\* App.run sets $stats.startTime where it sets the state to RUNNING
SetsStartTime(w0, w) == w0.appState # "RUNNING" /\ w.appState = "RUNNING"

\* App.stop, resumed in frame c from a user stop() hook that succeeded, sets
\* stopTime and adds stopTime - startTime to uptime
AddsUptime(cs0, cs, ev, c) ==
    /\ cs0[c].pc = "stopHook"
    /\ cs[c].pc = "afterStop" \/ (cs[c].pc = "idle" /\ ev.res = "ok")

\* $stats after a step that takes the App from w0 to w and the frames from
\* cs0 to cs
statsAfter(w0, w, cs0, cs, ev) ==
    IF ~stats.timed THEN stats ELSE
    [timed |-> TRUE,
     open |-> IF SetsStartTime(w0, w) THEN TRUE
              ELSE IF \E c \in DOMAIN cs : AddsUptime(cs0, cs, ev, c) THEN FALSE
              ELSE stats.open,
     stale |-> {c \in DOMAIN cs :
                   /\ cs[c].pc = "stopHook"
                   /\ \/ c \in stats.stale
                      \/ SetsStartTime(w0, w) /\ cs0[c].pc = "stopHook"}]

\* ----------------------------------------------------------- bookkeeping
\* the step leaves the App as w, the frames as cs and shows its callers ev.  A
\* frame that entered the stop hook is in the macrotask that resolved the stop
\* promise for as long as reactions of that promise are queued.
Commit(w, cs, ev) ==
    /\ appState' = w.appState
    /\ mod' = w.mod
    /\ currentInfo' = w.currentInfo
    /\ stopPromise' = w.stopPromise
    /\ restartCount' = w.restartCount
    /\ lastError' = w.lastError
    /\ uruns' = w.uruns
    /\ calls' = [c \in Calls |-> [cs[c] EXCEPT !.fresh = @ /\ ~MicroQuiet(w, cs)]]
    /\ event' = ev
    /\ stats' = statsAfter(Self, w, calls, cs, ev)
    /\ healthLogs' = IF w.appState = "STOPPED" THEN healthLogs ELSE 0
    /\ UNCHANGED <<con, pipe, srv, eng, rt, sub>>

\* frame c of method op has run up to its next await, or to its end, as o says
Advance(c, op, o) ==
    /\ o.pc # "unmodelled"
    /\ Commit(o.w,
              [calls EXCEPT ![c] = IF o.pc = "idle" THEN Idle
                                   ELSE [op |-> op, pc |-> o.pc, run |-> o.run,
                                         fresh |-> (o.pc = "stopHook")]],
              IF o.pc = "idle" THEN [NoEvent EXCEPT !.op = op, !.res = o.res] ELSE NoEvent)

\* a new call takes the first free frame, in a macrotask of its own
CanCall(c) ==
    /\ calls[c].pc = "idle"
    /\ \A d \in Calls : d < c => calls[d].pc # "idle"
    /\ MicroQuiet(Self, calls)

Init ==
    /\ appState = "UNINITIALIZED"
    /\ mod = FALSE
    /\ currentInfo = FALSE
    /\ stopPromise = "Unset"
    /\ restartCount = 0
    /\ lastError = NoError
    /\ uruns = [r \in Runs |-> NoUserRun]
    /\ calls = [c \in Calls |-> Idle]
    /\ autoRestart \in BOOLEAN
    /\ healthRestarts = 0
    /\ healthLogs = 0
    /\ stats = NewStats
    /\ event = NoEvent
    /\ con = NewConsole
    /\ pipe = NewPipe
    /\ srv = NewConnection
    /\ eng = NewEngine
    /\ rt = NewRouter /\ sub = NewSubscriber

\* a freshly constructed App that nothing calls: the setting of the
\* specifications that exercise one of the other components
appVars == <<appState, mod, currentInfo, stopPromise, restartCount, lastError,
             uruns, calls, autoRestart, healthRestarts, healthLogs, stats, event>>

notConsole == <<appVars, pipe, srv, eng, rt, sub>>
notPipe == <<appVars, con, srv, eng, rt, sub>>
notConnection == <<appVars, con, pipe, eng, rt, sub>>
notEngine == <<appVars, con, pipe, srv, rt, sub>>
notRouter == <<appVars, con, pipe, srv, eng, sub>>
notLogs == <<appVars, pipe, srv, eng, rt>>

AppNew ==
    /\ appState = "UNINITIALIZED"
    /\ mod = FALSE
    /\ currentInfo = FALSE
    /\ stopPromise = "Unset"
    /\ restartCount = 0
    /\ lastError = NoError
    /\ uruns = [r \in Runs |-> NoUserRun]
    /\ calls = [c \in Calls |-> Idle]
    /\ autoRestart = FALSE
    /\ healthRestarts = 0
    /\ healthLogs = 0
    /\ stats = NewStats
    /\ event = NoEvent

\* ------------------------------------------------- the lifecycle methods
AppInit(c) ==
    /\ CanCall(c)
    /\ Advance(c, "init", initSync(Self))
    /\ UNCHANGED <<autoRestart, healthRestarts>>

AppRun(c) ==
    /\ CanCall(c)
    /\ \E beh \in Behaviours : Advance(c, "run", runSync(Self, beh))
    /\ UNCHANGED <<autoRestart, healthRestarts>>

AppStop(c) ==
    /\ CanCall(c)
    /\ Advance(c, "stop", stopSync(Self))
    /\ UNCHANGED <<autoRestart, healthRestarts>>

AppRestart(c) ==
    /\ CanCall(c)
    /\ restartCount < MaxRestarts
    /\ \E beh \in Behaviours : Advance(c, "restart", restartSync(Self, beh))
    /\ UNCHANGED <<autoRestart, healthRestarts>>

AppUninstall(c) ==
    /\ CanCall(c)
    /\ Advance(c, "uninstall", uninstallSync(Self))
    /\ UNCHANGED <<autoRestart, healthRestarts>>

\* the import of the module file has settled
ImportDone(c) ==
    /\ calls[c].pc = "import"
    /\ MicroQuiet(Self, calls)
    /\ \E load \in BOOLEAN, ctor \in BOOLEAN :
          Advance(c, calls[c].op, initAfterImport(Self, load, ctor))
    /\ UNCHANGED <<autoRestart, healthRestarts>>

\* the user init() hook has settled
UserInitDone(c) ==
    /\ calls[c].pc = "userInit"
    /\ MicroQuiet(Self, calls)
    /\ \E ok \in BOOLEAN : Advance(c, calls[c].op, initAfterHook(Self, ok))
    /\ UNCHANGED <<autoRestart, healthRestarts>>

\* the user stop() hook has settled: at once (a hook that does not suspend,
\* resumed among the reactions of the stop promise) or in a later macrotask
StopHookDone(c) ==
    /\ calls[c].pc = "stopHook"
    /\ MicroQuiet(Self, calls) \/ calls[c].fresh
    /\ \E ok \in BOOLEAN :
          LET o == stopAfterHook(Self, ok)
          IN  Advance(c, calls[c].op,
                      IF calls[c].op = "stop" \/ ~ok THEN o
                      ELSE Out(o.w, "afterStop", "none", NoRun))
    /\ UNCHANGED <<autoRestart, healthRestarts>>

\* restart, uninstall or init resumes from its `await this.stop()`
AfterStop(c) ==
    /\ calls[c].pc = "afterStop"
    /\ \E beh \in Behaviours : Advance(c, calls[c].op, afterStop(calls[c].op, Self, beh))
    /\ UNCHANGED <<autoRestart, healthRestarts>>

\* delay(1000) wins the race of App.run: run() returns
WarmupTimer(c) ==
    /\ calls[c].pc = "race"
    /\ MicroQuiet(Self, calls)
    /\ Advance(c, calls[c].op, Out(Self, "idle", "ok", NoRun))
    /\ UNCHANGED <<autoRestart, healthRestarts>>

\* ------------------------------------------------------------ user code
Racing(r) == {c \in Calls : calls[c].pc = "race" /\ calls[c].run = r}
RacingOp(r) == IF Racing(r) = {} THEN "none" ELSE calls[Min(Racing(r))].op
WithoutRacing(r) == [c \in Calls |-> IF c \in Racing(r) THEN Idle ELSE calls[c]]

\* user run() r, whose wrapper call settled as <<v, w>>, has resolved: the race
\* of the App.run that awaits it resolves and that run() returns
RunResolved(r, v, w) ==
    Commit([Self EXCEPT !.uruns[r] = NoUserRun], WithoutRacing(r),
           [op |-> RacingOp(r), res |-> IF Racing(r) = {} THEN "none" ELSE "ok",
            v |-> v, w |-> w, rej |-> "none"])

\* user run() r, whose wrapper call settled as <<v, w>>, has rejected with
\* `error` (the loop does not catch what wrapper throws): the race of the
\* App.run that awaits it rejects and that run() enters its catch block
RunRejected(r, v, w, error) ==
    LET w1 == [Self EXCEPT !.uruns[r] = NoUserRun]
    IN  Commit(IF Racing(r) # {} THEN runCatch(w1, error) ELSE w1, WithoutRacing(r),
               [op |-> RacingOp(r), res |-> IF Racing(r) = {} THEN "none" ELSE "err",
                v |-> v, w |-> w, rej |-> error])

\* wrapper(p) of run r: p resolves first and wrapper returns its value.  Then
\* run() returns, or the loop goes on to its next wrapper call, which reads the
\* current $stopPromise and, should that be resolved already, is rejected in
\* the same macrotask.
UserPResolve(r) ==
    /\ Awaiting(uruns, r)
    /\ MicroQuiet(Self, calls)
    /\ \/ /\ stopPromise = "Unset"
          /\ Commit([Self EXCEPT !.uruns[r].tok = "current"], calls,
                    [NoEvent EXCEPT !.v = "value", !.w = "value"])
       \/ /\ stopPromise = "Set"
          /\ RunRejected(r, "value", "value", wrapperCatch(appState, AppStopped))
       \/ RunResolved(r, "value", "value")
    /\ UNCHANGED <<autoRestart, healthRestarts>>

\* wrapper(p) of run r: p rejects first
UserPReject(r) ==
    /\ Awaiting(uruns, r)
    /\ MicroQuiet(Self, calls)
    /\ RunRejected(r, UserError, wrapperCatch(appState, UserError),
                   wrapperCatch(appState, UserError))
    /\ UNCHANGED <<autoRestart, healthRestarts>>

\* user run() r threw before it suspended
UserRunThrew(r) ==
    /\ uruns[r].st = "threw"
    /\ RunRejected(r, "none", "none", UserError)
    /\ UNCHANGED <<autoRestart, healthRestarts>>

\* wrapper(p) of run r: the stop promise it holds was resolved first
CancelDeliver(r) ==
    /\ Awaiting(uruns, r)
    /\ HoldsResolved(Self, r)
    /\ RunRejected(r, "none", wrapperCatch(appState, AppStopped),
                   wrapperCatch(appState, AppStopped))
    /\ UNCHANGED <<autoRestart, healthRestarts>>

\* a faulty health check, which does not look at the autoRestart setting
healthWants_anyConfig(w, auto) ==
    w.appState = "STOPPED" /\ w.restartCount < maxRestartAttempts

\* a faulty cap of the health check, which allows one restart too many
healthWants_offByOne(w, auto) ==
    w.appState = "STOPPED" /\ auto /\ w.restartCount <= maxRestartAttempts

\* ------------------------------------------------------ the health check
\* one app of one tick of the interval timer: whether restart() is invoked
healthWants(w, auto) ==
    w.appState = "STOPPED" /\ auto /\ w.restartCount < maxRestartAttempts

HealthCheck(c) ==
    /\ CanCall(c)
    /\ healthWants(Self, autoRestart)
    /\ \E beh \in Behaviours : Advance(c, "restart", restartSync(Self, beh))
    /\ healthRestarts' = healthRestarts + 1
    /\ UNCHANGED autoRestart

\* one app of one tick: the else branch, which logs that the cap is exceeded
healthExceeds(w, auto) ==
    w.appState = "STOPPED" /\ auto /\ ~(w.restartCount < maxRestartAttempts)

HealthExceeded ==
    /\ MicroQuiet(Self, calls)
    /\ healthExceeds(Self, autoRestart)
    /\ healthLogs < MaxLogs
    /\ healthLogs' = healthLogs + 1
    /\ UNCHANGED <<appState, mod, currentInfo, stopPromise, restartCount, lastError,
                   uruns, calls, autoRestart, healthRestarts, stats, event,
                   con, pipe, srv, eng, rt, sub>>

Next ==
    \/ \E c \in Calls : AppInit(c)
    \/ \E c \in Calls : AppRun(c)
    \/ \E c \in Calls : AppStop(c)
    \/ \E c \in Calls : AppRestart(c)
    \/ \E c \in Calls : AppUninstall(c)
    \/ \E c \in Calls : ImportDone(c)
    \/ \E c \in Calls : UserInitDone(c)
    \/ \E c \in Calls : StopHookDone(c)
    \/ \E c \in Calls : AfterStop(c)
    \/ \E c \in Calls : WarmupTimer(c)
    \/ \E r \in Runs : UserPResolve(r)
    \/ \E r \in Runs : UserPReject(r)
    \/ \E r \in Runs : UserRunThrew(r)
    \/ \E r \in Runs : CancelDeliver(r)
    \/ \E c \in Calls : HealthCheck(c)

Spec == Init /\ [][Next]_vars

\* run, stop and restart calls and the health check on an App that an init()
\* has brought to INITIALIZED, with $stats.startTime and uptime followed
RunInit ==
    /\ appState = "INITIALIZED"
    /\ mod = TRUE
    /\ currentInfo = TRUE
    /\ stopPromise = "Unset"
    /\ restartCount = 0
    /\ lastError = NoError
    /\ uruns = [r \in Runs |-> NoUserRun]
    /\ calls = [c \in Calls |-> Idle]
    /\ autoRestart \in BOOLEAN
    /\ healthRestarts = 0
    /\ healthLogs = 0
    /\ stats = [NewStats EXCEPT !.timed = TRUE]
    /\ event = [NoEvent EXCEPT !.op = "init", !.res = "ok"]
    /\ con = NewConsole
    /\ pipe = NewPipe
    /\ srv = NewConnection
    /\ eng = NewEngine
    /\ rt = NewRouter /\ sub = NewSubscriber

RunNext ==
    \/ \E c \in Calls : AppRun(c)
    \/ \E c \in Calls : AppStop(c)
    \/ \E c \in Calls : AppRestart(c)
    \/ \E c \in Calls : StopHookDone(c)
    \/ \E c \in Calls : AfterStop(c)
    \/ \E c \in Calls : WarmupTimer(c)
    \/ \E r \in Runs : UserPResolve(r)
    \/ \E r \in Runs : UserPReject(r)
    \/ \E r \in Runs : UserRunThrew(r)
    \/ \E r \in Runs : CancelDeliver(r)
    \/ \E c \in Calls : HealthCheck(c)
    \/ HealthExceeded

RunSpec == RunInit /\ [][RunNext]_vars

TypeOK ==
    /\ appState \in AppState
    /\ mod \in BOOLEAN /\ currentInfo \in BOOLEAN
    /\ stopPromise \in {"Unset", "Set"}
    /\ restartCount \in Nat
    /\ healthRestarts \in Nat

\* ---------------------------------------------------------------- claims
AppFields == <<appState, mod, currentInfo, stopPromise, restartCount, lastError>>

\* C1: every change of the App's state, under any interleaving of the
\* lifecycle calls, is UNINITIALIZED->INITIALIZED, INITIALIZED->RUNNING,
\* STOPPED->RUNNING, RUNNING->STOPPING, STOPPING->STOPPED, RUNNING->STOPPED or
\* any state->UNINITIALIZED.
AllowedTransitions ==
    {<<"UNINITIALIZED", "INITIALIZED">>, <<"INITIALIZED", "RUNNING">>,
     <<"STOPPED", "RUNNING">>, <<"RUNNING", "STOPPING">>,
     <<"STOPPING", "STOPPED">>, <<"RUNNING", "STOPPED">>}
    \cup {<<s, "UNINITIALIZED">> : s \in AppState}

C1_AllowedTransitionsOnly ==
    [][appState' # appState => <<appState, appState'>> \in AllowedTransitions]_vars

\* C2: once stop() has been called on a RUNNING App, every wrapper call in
\* which user code is suspended on a promise that never settles is rejected
\* with 'App stopped'.  A wrapper call is rejected by nothing but the
\* resolution of the stop promise it holds, and stop() resolves the current
\* one only: so in STOPPING every suspended wrapper call holds a resolved
\* stop promise.
C2_StopCancelsEveryWrapper ==
    appState = "STOPPING" =>
        \A r \in Runs : Awaiting(uruns, r) => HoldsResolved(Self, r)

\* C3: whenever the user run() rejects while the App is RUNNING, before or
\* after the warm-up timer of App.run has fired, the state becomes STOPPED and
\* lastError holds the error's message.
C3_RunErrorStopsApp ==
    [][(event'.rej # "none" /\ appState = "RUNNING")
          => (appState' = "STOPPED" /\ lastError' = event'.rej)]_vars

\* C4: a wrapper call whose promise v settles while the stop promise it holds
\* is pending settles as v does (with v's value, or with v's error); a wrapper
\* call whose stop promise is resolved while v is pending rejects with
\* 'App stopped'.
C4_WrapperOutcome ==
    /\ event.v # "none" => event.w = event.v
    /\ (event.v = "none" /\ event.w # "none") => event.w = AppStopped

Suspended(c) == calls[c].pc # "idle"
StaysSuspended(c) ==
    Suspended(c) /\ calls'[c].op = calls[c].op /\ calls'[c].pc = calls[c].pc

C7_NoOverlap ==
    [][(\E c \in Calls : StaysSuspended(c))
          => UNCHANGED <<appState, mod, stopPromise>>]_vars

\* C8: an init that was let in (the App was not RUNNING) and fails leaves
\* lastError set to the failure, the module handle and the info cleared, and
\* the state UNINITIALIZED.
InitFails(c) ==
    /\ calls[c].op = "init" /\ Suspended(c)
    /\ calls'[c].pc = "idle"
    /\ event'.op = "init" /\ event'.res = "err"

C8_InitFailureUninitialized ==
    [][\A c \in Calls : InitFails(c)
          => /\ lastError' \in {LoadFailed, InitFailed}
             /\ ~mod' /\ ~currentInfo'
             /\ appState' = "UNINITIALIZED"]_vars

\* C9: init on a RUNNING App is rejected and changes nothing: state, module
\* handle, info, stats and stop promise are as before, no user run() is
\* cancelled, and no call in flight is disturbed.
C9_InitWhileRunningRejected ==
    [][\A c \in Calls : (AppInit(c) /\ appState = "RUNNING")
          => /\ event'.op = "init" /\ event'.res = "err"
             /\ UNCHANGED <<AppFields, uruns, calls>>]_vars

\* init has just been refused on a RUNNING App whose run loop is suspended in
\* a wrapper call on the current stop promise
C9_Witness ==
    /\ appState = "RUNNING" /\ stopPromise = "Unset"
    /\ event.op = "init" /\ event.res = "err"
    /\ lastError = NoError
    /\ \A c \in Calls : calls[c].pc = "idle"
    /\ \E r \in Runs : Awaiting(uruns, r) /\ uruns[r].tok = "current"

\* C10: stop() on a RUNNING App sets the state to STOPPING and resolves the
\* stop promise, then invokes the user stop() hook and suspends; it sets the
\* state to STOPPED in the step in which it resumes from the hook and not
\* before, and the state is STOPPED when it returns and when it rethrows the
\* hook's error (which it has stored in lastError).
StopReturns(c) ==
    calls[c].op = "stop" /\ calls[c].pc = "stopHook" /\ calls'[c].pc = "idle"

C23_UptimePairsRunAndStop ==
    [][\A c \in Calls : AddsUptime(calls, calls', event', c)
          => (stats.open /\ c \notin stats.stale)]_vars

\* C24: stop() on a RUNNING App whose user run() loops on wrapper awaits and
\* whose stop() hook succeeds ends with the state STOPPED and lastError as it
\* was (unset), also within the warm-up race of run(): neither the call of
\* stop(), nor the rejection of the wrapper call by the stop promise, nor the
\* return of stop() from the hook changes lastError.
StopCancelsWrapper == event'.v = "none" /\ event'.rej = AppStopped
StopSucceeds(c) == StopReturns(c) /\ event'.res = "ok"

C24_StopLeavesNoError ==
    [][/\ StopCancelsWrapper => lastError' = lastError
       /\ \A c \in Calls :
             /\ (AppStop(c) /\ appState = "RUNNING" /\ mod) => lastError' = lastError
             /\ StopSucceeds(c) => (appState' = "STOPPED" /\ lastError' = lastError)]_vars

\* C25: a successful init of an App whose restartCount has reached
\* maxRestartAttempts resets the counter, so that the health check restarts
\* the App again when it is STOPPED.
InitSucceeds(c) ==
    /\ calls[c].op = "init" /\ calls[c].pc = "userInit"
    /\ calls'[c].pc = "idle"
    /\ event'.op = "init" /\ event'.res = "ok"

C25_InitResetsRestartCount ==
    [][\A c \in Calls : (InitSucceeds(c) /\ restartCount >= maxRestartAttempts)
          => restartCount' < maxRestartAttempts]_vars

\* C26: while an App whose restartCount has reached maxRestartAttempts stays
\* STOPPED, 'exceeded max restart attempts' is logged once, not at each tick.
C26_ExceededLoggedOnce == healthLogs <= 1

\* C27: with autoRestart, a tick invokes restart() on the App whenever it is
\* STOPPED with restartCount < maxRestartAttempts, whatever stopped it, and on
\* no other App; without autoRestart the health check invokes and logs nothing.
C27_HealthCheckRestartsStopped ==
    /\ [](~autoRestart => (healthRestarts = 0 /\ healthLogs = 0))
    /\ []((autoRestart /\ appState = "STOPPED"
              /\ restartCount < maxRestartAttempts)
            <=> healthWants(Self, autoRestart))
    /\ [][healthRestarts' # healthRestarts
            => /\ appState = "STOPPED" /\ autoRestart
               /\ restartCount < maxRestartAttempts
               /\ healthRestarts' = healthRestarts + 1
               /\ restartCount' = restartCount + 1]_vars

\* the health check has restarted, twice, an App that explicit stop() calls
\* had stopped: no error was ever recorded
C27_Witness ==
    /\ autoRestart /\ healthRestarts = 2 /\ restartCount = 2
    /\ lastError = NoError
    /\ appState = "RUNNING"

\* C36: at most one invocation of the user run() is live: when user run() is
\* invoked, every earlier invocation that has not settled holds a stop promise
\* that is resolved; and in STOPPED or UNINITIALIZED no run loop is suspended
\* in a wrapper call whose stop promise is pending.
Invoked(r) == uruns[r].st = "free" /\ uruns'[r].st # "free"
Cancelled(u, sp, r) ==
    u[r].tok = "cancelled" \/ (u[r].tok = "current" /\ sp = "Set")

C36_OneLiveRun ==
    /\ [](appState \in {"STOPPED", "UNINITIALIZED"}
            => \A r \in Runs : Awaiting(uruns, r) => Cancelled(uruns, stopPromise, r))
    /\ [][\A r \in Runs : Invoked(r)
            => \A q \in Runs \ {r} :
                  Awaiting(uruns, q) => Cancelled(uruns, stopPromise, q)]_vars

\* ======================================================= Console (console.ts)
MaxWrites == 24          \* console writes in one run
MaxClears == 2           \* console.clear() calls in one run

\* a faulty test of the printer, which evicts one write too late
queueFull_late(q) == Len(q) > maxLogQueueLength

\* the printer: `this.$logQueue.length >= this.$maxLogQueueLength`
queueFull(q) == Len(q) >= maxLogQueueLength

emit(c, ev, data) == [c EXCEPT !.emitted = Append(@, [ev |-> ev, data |-> data])]

\* a faulty printer, which emits `log` for the new message before it evicts
printer_logFirst(c) ==
    LET msg == c.written + 1
        c1 == emit([c EXCEPT !.queue = Append(@, msg), !.written = msg], "log", msg)
    IN  IF queueFull(c.queue)
        THEN emit([c1 EXCEPT !.queue = Tail(@)], "overflow", Head(c.queue))
        ELSE c1

\* the printer callback of tjs.createConsole: one console write
printer(c) ==
    LET c1 == IF queueFull(c.queue)
              THEN emit([c EXCEPT !.queue = Tail(@)], "overflow", Head(c.queue))
              ELSE c
        msg == c.written + 1
    IN  emit([c1 EXCEPT !.queue = Append(@, msg), !.written = msg], "log", msg)

\* Console.clear: emits a copy of the queue and leaves the queue as it is
clear(c) == emit(c, "clear", c.queue)

Clears(c) == Cardinality({i \in DOMAIN c.emitted : c.emitted[i].ev = "clear"})

ConsoleWrite ==
    /\ con.written < MaxWrites
    /\ con' = printer(con)
    /\ UNCHANGED notConsole

ConsoleClear ==
    /\ Clears(con) < MaxClears
    /\ con' = clear(con)
    /\ UNCHANGED notConsole

ConsoleInit ==
    /\ AppNew /\ con = NewConsole /\ pipe = NewPipe
    /\ srv = NewConnection /\ eng = NewEngine /\ rt = NewRouter /\ sub = NewSubscriber

ConsoleNext == ConsoleWrite \/ ConsoleClear

ConsoleSpec == ConsoleInit /\ [][ConsoleNext]_vars

\* C11: the log queue never holds more than maxLogQueueLength messages; a
\* message that has left the queue was emitted as `overflow` exactly once, a
\* message still in the queue never; and the step that removes a message from
\* the queue is the step that emits it.
InQueue(c, m) == \E i \in DOMAIN c.queue : c.queue[i] = m
Overflows(c, m) ==
    Cardinality({i \in DOMAIN c.emitted :
                    c.emitted[i].ev = "overflow" /\ c.emitted[i].data = m})

C11_LogQueueBound ==
    /\ [](/\ Len(con.queue) <= maxLogQueueLength
          /\ \A m \in 1..con.written :
                Overflows(con, m) = IF InQueue(con, m) THEN 0 ELSE 1)
    /\ [][\A m \in 1..con.written :
             (InQueue(con, m) /\ ~InQueue(con', m))
                <=> Overflows(con', m) = Overflows(con, m) + 1]_vars

\* the queue is full after more writes than it holds: the oldest messages
\* have been evicted and emitted
C11_Witness ==
    /\ con.written = maxLogQueueLength + 3
    /\ Len(con.queue) = maxLogQueueLength
    /\ Overflows(con, 3) = 1
    /\ Clears(con) > 0

\* C28: the `log` events are emitted in the order the messages were pushed
\* (the i-th `log` carries the i-th message), and the `overflow` event of an
\* evicted message, the oldest, comes right before the `log` event of the
\* message whose push evicted it.
LogEvents(c) == SelectSeq(c.emitted, LAMBDA e : e.ev = "log")

C28_EventsInPushOrder ==
    /\ \A i \in DOMAIN LogEvents(con) : LogEvents(con)[i].data = i
    /\ \A i \in DOMAIN con.emitted :
          con.emitted[i].ev = "overflow"
             => /\ i + 1 \in DOMAIN con.emitted
                /\ con.emitted[i + 1].ev = "log"
                /\ con.emitted[i + 1].data = con.emitted[i].data + maxLogQueueLength

\* two pushes on a full queue have evicted the two oldest messages
C28_Witness ==
    /\ con.written = maxLogQueueLength + 2
    /\ Overflows(con, 1) = 1 /\ Overflows(con, 2) = 1
    /\ con.emitted[Len(con.emitted)].ev = "log"

\* ================================================ GET /@api/logs/:name (main.ts)
MaxPushes == 6           \* console writes in one run of the subscriber

\* the handler up to `await ctx.sse()`
logsOpen(u) == [u EXCEPT !.pc = "sse"]

\* ctx.sse() has returned: JSON.stringify(app.console.log) is evaluated, the
\* event with id 0 is handed to sse.send and the handler awaits the write
logsBacklog(u, c) == [u EXCEPT !.pc = "backlog", !.backlog = c.queue]

\* the write of the backlog is over: app.console.on('log', logHandler)
logsListen(u) == [u EXCEPT !.pc = "listening"]

\* emit('log', msg) with the listeners there are: logHandler sends one event
\* whose id is the uuid of msg
logHandler(u, msg) ==
    IF u.pc = "listening" THEN [u EXCEPT !.events = Append(@, msg)] ELSE u

LogsPush ==
    /\ con.written < MaxPushes
    /\ con' = printer(con)
    /\ sub' = logHandler(sub, con'.written)
    /\ UNCHANGED notLogs

LogsOpen ==
    /\ sub.pc = "none"
    /\ sub' = logsOpen(sub)
    /\ UNCHANGED <<notLogs, con>>

LogsSseDone ==
    /\ sub.pc = "sse"
    /\ sub' = logsBacklog(sub, con)
    /\ UNCHANGED <<notLogs, con>>

LogsBacklogDone ==
    /\ sub.pc = "backlog"
    /\ sub' = logsListen(sub)
    /\ UNCHANGED <<notLogs, con>>

LogsInit ==
    /\ AppNew /\ con = NewConsole /\ pipe = NewPipe
    /\ srv = NewConnection /\ eng = NewEngine /\ rt = NewRouter /\ sub = NewSubscriber

LogsNext == LogsPush \/ LogsOpen \/ LogsSseDone \/ LogsBacklogDone

LogsSpec == LogsInit /\ [][LogsNext]_vars

\* C21: every message pushed to the console is delivered to the subscriber
\* exactly once: it is in the backlog event (id 0) or it is the message of one
\* later event, and not both; none that was pushed while the stream was being
\* opened is missing.
Delivered(u, m) ==
    Cardinality({i \in DOMAIN u.backlog : u.backlog[i] = m})
       + Cardinality({i \in DOMAIN u.events : u.events[i] = m})

C21_LogsDeliveredOnce ==
    sub.pc = "listening" => \A m \in 1..con.written : Delivered(sub, m) = 1

\* ============================================================ Pipe (pipe.ts)
MaxStream == 4           \* bytes in the stream of a connection

\* the bytes that matter to readline: LF, CR and any other byte
Bytes == {"x", "CR", "LF"}

Streams == UNION {[1..n -> Bytes] : n \in 0..MaxStream}

\* the scan loop of readline: position i of the buffer starts a line end (LF,
\* or CR with LF after it in the buffer)
IsNewlineAt(buf, i) ==
    \/ buf[i] = "LF"
    \/ buf[i] = "CR" /\ i + 1 <= Len(buf) /\ buf[i + 1] = "LF"

NewlineIndex(buf) ==
    IF \E i \in DOMAIN buf : IsNewlineAt(buf, i)
    THEN Min({i \in DOMAIN buf : IsNewlineAt(buf, i)})
    ELSE 0

NewlineLength(buf, i) == IF buf[i] = "LF" THEN 1 ELSE 2

\* readline from the top of its loop (at the call, or after a fill) to its
\* return or to its next `await this.fill()`
readlineScan(p) ==
    LET i == NewlineIndex(p.buffer)
    IN  IF i # 0
        THEN [p EXCEPT !.lines = Append(@, p.chunks \o SubSeq(p.buffer, 1, i - 1)),
                       !.chunks = <<>>,
                       !.buffer = SubSeq(@, i + NewlineLength(p.buffer, i), Len(@))]
        ELSE IF Len(p.chunks) + Len(p.buffer) >= p.max
        THEN [p EXCEPT !.chunks = @ \o p.buffer, !.buffer = <<>>, !.pc = "error"]
        ELSE [p EXCEPT !.chunks = @ \o p.buffer, !.buffer = <<>>, !.pc = "fill"]

\* readline after fill() has returned n bytes
readlineFilled(p, n) ==
    [p EXCEPT !.buffer = @ \o SubSeq(p.input, 1, n),
              !.input = SubSeq(@, n + 1, Len(@)),
              !.pc = "scan"]

\* readline after fill() has returned null: the bytes collected are the last
\* line; with none collected readline returns null
readlineEOF(p) ==
    IF Len(p.chunks) = 0 THEN [p EXCEPT !.pc = "eof"]
    ELSE [p EXCEPT !.lines = Append(@, p.chunks), !.chunks = <<>>, !.pc = "scan"]

PipeScan ==
    /\ pipe.pc = "scan"
    /\ pipe' = readlineScan(pipe)
    /\ UNCHANGED notPipe

\* the connection delivers some of the bytes it has, as the network split them
PipeFill ==
    /\ pipe.pc = "fill"
    /\ \E n \in 1..Len(pipe.input) : pipe' = readlineFilled(pipe, n)
    /\ UNCHANGED notPipe

\* the connection is at its end
PipeEOF ==
    /\ pipe.pc = "fill"
    /\ pipe.input = <<>>
    /\ pipe' = readlineEOF(pipe)
    /\ UNCHANGED notPipe

PipeInit ==
    /\ AppNew /\ con = NewConsole
    /\ srv = NewConnection /\ eng = NewEngine /\ rt = NewRouter /\ sub = NewSubscriber
    /\ \E s \in Streams : pipe = [NewPipe EXCEPT !.stream = s, !.input = s]

PipeNext == PipeScan \/ PipeFill \/ PipeEOF

PipeSpec == PipeInit /\ [][PipeNext]_vars

\* the lines of a byte stream: each is the text up to but excluding the next
\* LF or CRLF; bytes after the last line end are the final line
RECURSIVE LinesOf(_, _)
LinesOf(s, cur) ==
    IF s = <<>> THEN (IF cur = <<>> THEN <<>> ELSE <<cur>>)
    ELSE IF s[1] = "LF" THEN <<cur>> \o LinesOf(Tail(s), <<>>)
    ELSE IF s[1] = "CR" /\ Len(s) >= 2 /\ s[2] = "LF"
    THEN <<cur>> \o LinesOf(SubSeq(s, 3, Len(s)), <<>>)
    ELSE LinesOf(Tail(s), Append(cur, s[1]))

\* C19: the lines that the readline calls return, up to the null at the end of
\* the stream, are the lines of the byte stream, however the connection split
\* the stream into reads.
C19_LinesIndependentOfSplits ==
    pipe.pc = "eof" => pipe.lines = LinesOf(pipe.stream, <<>>)

\* readline(2), as readChunk calls it, on the same streams
LineInit ==
    /\ AppNew /\ con = NewConsole
    /\ srv = NewConnection /\ eng = NewEngine /\ rt = NewRouter /\ sub = NewSubscriber
    /\ \E s \in Streams :
          pipe = [NewPipe EXCEPT !.stream = s, !.input = s, !.max = chunkLineMax]

LineSpec == LineInit /\ [][PipeNext]_vars

\* C35: readline(max) never returns a line longer than max bytes, also when
\* the over-long line and its terminator are in the buffer already; a line
\* with no terminator within its first max bytes makes readline fail.
C35_LineWithinMax ==
    /\ \A i \in DOMAIN pipe.lines : Len(pipe.lines[i]) <= pipe.max
    /\ pipe.pc = "error" => Len(pipe.chunks) >= pipe.max

\* ===================================================================
\* The server connection: HandlerClass.handle (route/handler.ts) around
\* Router.handle (router.ts) and the engine it drives (client.ts)
\* ===================================================================
MaxRequests == 2         \* requests the peer sends before it closes its side
maxLooped == 16          \* HandlerClass.handle closes once `looped` exceeds this

\* what the peer sends next: a request without a body, one with a body, one
\* with `Connection: close`, a malformed request line, a malformed header line,
\* an invalid Content-Length, or the end of the stream
Requests == {"get", "post", "close", "badline", "badheader", "badlength", "eof"}
Malformed == {"badline", "badheader", "badlength", "eof"}

\* what the matched route handler (or the 404 branch) does with the context:
\* awaits the response it writes, starts the response without awaiting it,
\* returns without responding, throws, upgrades to server-sent events or to a
\* WebSocket, awaits a response and then calls send, sse or upgrade again, or
\* is the handler of POST /@api/control/:name whose transition succeeds, or
\* answers 204 with ctx.status(204) or with ctx.send(data, 204)
Handlers == {"awaits", "detached", "silent", "throws", "sse", "upgrade",
             "thenSend", "thenSse", "thenUpgrade", "control",
             "noContent", "noContentBody"}

\* the code and whether there is a body in the writeResponse call that the
\* Context method `m` makes (send and status), or sse() and ws() make
codeOf(m) ==
    CASE m = "send" -> 200 [] m = "sse" -> 200 [] m = "upgrade" -> 101
      [] m = "status204" -> 204 [] m = "send204" -> 204
bodyOf(m) == m \in {"send", "send204"}

\* `assert(code != 204 || body, "204 response must not have a body")`
bodyAllowed(code, body) == code # 204 \/ body

\* a faulty writeResponse, which does not look at $sent
writeResponse_unchecked(c, code, body) ==
    [c EXCEPT !.sent = TRUE, !.lines = @ + 1, !.status = code]

\* HTTPClient.writeResponse, awaited to its end: the assertions on $sent and
\* on 204, then $sent = true and the lines of the response, the status line
\* first
writeResponse(c, code, body) ==
    IF c.sent \/ ~bodyAllowed(code, body) THEN c
    ELSE [c EXCEPT !.sent = TRUE, !.lines = @ + 1, !.status = code]

\* the Context method `m` fails with an assertion error
asserts(c, m) ==
    \/ c.sent
    \/ m = "sse" /\ c.protocol # "HTTP"
    \/ ~bodyAllowed(codeOf(m), bodyOf(m))

\* HTTPClient.sse(): both assertions, then the protocol and the response
srvSse(c) ==
    IF asserts(c, "sse") THEN c
    ELSE writeResponse([c EXCEPT !.protocol = "SSE", !.state = "UPGRADED"],
                       codeOf("sse"), bodyOf("sse"))

\* HTTPClient.ws() on a request that carries Sec-WebSocket-Key: the assertion,
\* then the 101 response and the protocol
srvWs(c) ==
    IF asserts(c, "upgrade") THEN c
    ELSE [writeResponse(c, codeOf("upgrade"), bodyOf("upgrade"))
             EXCEPT !.protocol = "WEBSOCKET", !.state = "UPGRADED"]

\* the `finally` of Router.handle: close unless the connection is kept alive
handleFinally(c) == [c EXCEPT !.closed = c.closed \/ ~c.keepalive, !.pc = "handled"]

\* a faulty catch, which writes no response at all
handleCatch_noResponse(c, silentError) == c

\* the `catch` of Router.handle with no error handler installed: a 500
\* response unless the message says the connection was closed or reset
handleCatch(c, silentError) ==
    IF silentError THEN c ELSE writeResponse(c, 500, TRUE)

\* HTTPClient.start() fails: its catch moves the engine to ERROR and rethrows
\* into Router.handle; nothing of analyzeheaders' keep-alive decision has run
startFails(c, req) ==
    handleFinally(handleCatch([c EXCEPT !.state = "ERROR"], req = "eof"))

\* HTTPClient.start() succeeds: parseHeaders and analyzeheaders
startParses(c, req) ==
    [c EXCEPT !.state = "BODY", !.keepalive = (req # "close"),
              !.hasBody = (req = "post"), !.pc = "handler"]

\* the handler awaits the Context method `m`; the assertion error of a call
\* that fails leaves the handler and is caught by Router.handle
ctxCall(c, m) ==
    IF asserts(c, m) THEN handleCatch(c, FALSE)
    ELSE CASE m = "sse" -> srvSse(c)
           [] m = "upgrade" -> srvWs(c)
           [] OTHER -> writeResponse(c, codeOf(m), bodyOf(m))

\* the route handler `h` runs; `rb` says whether it reads the body to its end
routeHandler(c, h, rb) ==
    LET c0 == IF rb THEN [c EXCEPT !.state = "DONE"] ELSE c
        c1 == [c0 EXCEPT !.handler = h]
        then(m) == IF asserts(c1, "send") THEN ctxCall(c1, "send")
                   ELSE ctxCall(ctxCall(c1, "send"), m)
    IN
    CASE h = "awaits"   -> ctxCall(c1, "send")
      [] h = "detached" -> IF c1.sent THEN c1
                           ELSE [writeResponse(c1, 200, TRUE) EXCEPT !.writing = TRUE]
      [] h = "silent"   -> c1
      [] h = "throws"   -> handleCatch(c1, FALSE)
      [] h = "sse"      -> ctxCall(c1, "sse")
      [] h = "upgrade"  -> ctxCall(c1, "upgrade")
      [] h = "thenSend" -> then("send")
      [] h = "thenSse"  -> then("sse")
      [] h = "thenUpgrade" -> then("upgrade")
      [] h = "control"  -> [c1 EXCEPT !.state = "DONE"]
      [] h = "noContent" -> ctxCall(c1, "status204")
      [] h = "noContentBody" -> ctxCall(c1, "send204")

\* a faulty reuse, which does not look at the read state
reuseOk_sentOnly(c) == c.sent

\* HTTPClient.reuse(): the two assertions
reuseOk(c) == c.sent /\ c.state = "DONE"

\* HTTPClient.reuse(): both assertions, then $sent and $state are reset
reuse(c) ==
    IF reuseOk(c)
    THEN [c EXCEPT !.sent = FALSE, !.state = "IDLE", !.reuse = "ok",
                   !.lines = 0, !.status = 0]
    ELSE [c EXCEPT !.reuse = "failed", !.lines = 0, !.status = 0]

\* `if(this.state == ReadState.BODY) this.readBody()`: the engine as reuse()
\* finds it (a request without a body is read to its end at once)
beforeReuse(c) ==
    IF c.state = "BODY" /\ ~c.hasBody
    THEN [c EXCEPT !.state = "DONE"]
    ELSE [c EXCEPT !.reading = c.reading \/ (c.state = "BODY" /\ c.hasBody)]

\* the loop leaves at `break` before it calls reuse()
breaks(c) == c.state = "ERROR" \/ c.protocol # "HTTP"

\* the statements of the loop body after `await $r.handle(this)`
afterHandle(c) ==
    IF breaks(c) THEN [c EXCEPT !.pc = "exited"]
    ELSE [reuse(beforeReuse(c)) EXCEPT !.pc = "while"]

\* the loop condition, the `looped` guard and the call of client.start()
whileTop(c) ==
    IF c.closed THEN [c EXCEPT !.pc = "exited"]
    ELSE IF c.looped > maxLooped
         THEN [c EXCEPT !.looped = c.looped + 1, !.closed = TRUE, !.pc = "exited"]
         ELSE [c EXCEPT !.looped = c.looped + 1, !.state = "STATUS_LINE",
                        !.pc = "start"]

ConnWhile ==
    /\ srv.pc = "while"
    /\ srv' = whileTop(srv)
    /\ UNCHANGED notConnection

\* the bytes of the next request (or the end of the stream) have arrived
ConnRequest ==
    /\ srv.pc = "start"
    /\ \E req \in Requests :
          /\ srv.looped > MaxRequests => req = "eof"
          /\ srv' = IF req \in Malformed THEN startFails(srv, req)
                                         ELSE startParses(srv, req)
    /\ UNCHANGED notConnection

ConnHandler ==
    /\ srv.pc = "handler"
    /\ \E h \in Handlers, rb \in BOOLEAN :
          /\ h = "control" => srv.hasBody
          /\ srv' = handleFinally(routeHandler(srv, h, rb))
    /\ UNCHANGED notConnection

ConnAfterHandle ==
    /\ srv.pc = "handled"
    /\ srv' = afterHandle(srv)
    /\ UNCHANGED notConnection

\* the last write of a response that nobody awaited has completed
ConnWriteDone ==
    /\ srv.writing
    /\ srv' = [srv EXCEPT !.writing = FALSE]
    /\ UNCHANGED notConnection

\* the readBody() that the loop did not await has read the body to its end
ConnReadDone ==
    /\ srv.reading
    /\ srv' = [srv EXCEPT !.reading = FALSE, !.state = "DONE"]
    /\ UNCHANGED notConnection

ConnInit ==
    /\ AppNew /\ con = NewConsole /\ pipe = NewPipe
    /\ srv = NewConnection /\ eng = NewEngine /\ rt = NewRouter /\ sub = NewSubscriber

ConnNext ==
    \/ ConnWhile
    \/ ConnRequest
    \/ ConnHandler
    \/ ConnAfterHandle
    \/ ConnWriteDone
    \/ ConnReadDone

ConnSpec == ConnInit /\ [][ConnNext]_vars

\* the loop calls client.start() for a request that is not the first one
StartsNext == srv.pc = "while" /\ srv'.pc = "start" /\ srv.looped >= 1

\* C12: on one server connection the engine starts parsing the next request
\* only after the response to the previous request has been completely written
\* and reuse() has succeeded, whatever the route handler did and also when
\* reuse() failed.
C12_OneRequestInFlight ==
    [][StartsNext => ~srv.writing /\ srv.reuse = "ok"]_vars

\* C14: once the engine of a server connection has entered ERROR, the
\* connection's pipe is closed by the time the connection loop is over, and no
\* further request is parsed.
C14_ErrorClosesPipe ==
    /\ [](srv.pc = "exited" /\ srv.state = "ERROR" => srv.closed)
    /\ [][srv.state = "ERROR" => srv'.pc # "start"]_vars

\* C22: a POST /@api/control/:name whose transition succeeds is answered: when
\* its handler has returned, and so before the loop calls reuse(), one
\* response has been written on the connection, to its end.
C22_ControlAnswered ==
    (srv.pc = "handled" /\ srv.handler = "control")
       => (srv.lines = 1 /\ srv.sent /\ ~srv.writing)

\* C29: reuse() succeeds only when a message has been sent and the read state
\* is DONE; then the read state is IDLE, sent is false and the connection is
\* as open as it was; in every other situation it fails and leaves the read
\* state and sent as they were.
CallsReuse == srv.pc = "handled" /\ srv'.pc = "while"

C29_ReuseOnlyWhenDone ==
    [][CallsReuse =>
          LET c == beforeReuse(srv)
          IN  IF c.sent /\ c.state = "DONE"
              THEN /\ srv'.reuse = "ok"
                   /\ srv'.state = "IDLE" /\ ~srv'.sent
                   /\ srv'.closed = srv.closed /\ srv'.protocol = srv.protocol
              ELSE /\ srv'.reuse = "failed"
                   /\ srv'.state = c.state /\ srv'.sent = c.sent]_vars

\* the second request of a connection has been answered and read to its end:
\* reuse() has succeeded again and the connection is open
C29_Witness ==
    /\ srv.pc = "while" /\ srv.looped = 2 /\ srv.reuse = "ok"
    /\ srv.state = "IDLE" /\ ~srv.sent /\ ~srv.closed

\* C30: between two calls of reuse() at most one status line is written: once
\* a response has been sent, a handler that calls send, sse or upgrade (again)
\* writes no status line and upgrades nothing.
C30_OneStatusLine ==
    /\ [](srv.lines <= 1)
    /\ []((srv.pc = "handled" /\ srv.handler \in {"thenSend", "thenSse", "thenUpgrade"})
            => srv.protocol = "HTTP")
    /\ [][(srv.sent /\ srv.pc = "handler")
            => /\ srv'.lines = srv.lines /\ srv'.sent
               /\ srv'.protocol = srv.protocol]_vars

\* a handler has sent a response and then called ctx.sse(): one status line
\* is written and the connection is still an HTTP connection
C30_Witness ==
    /\ srv.pc = "handled" /\ srv.handler = "thenSse"
    /\ srv.lines = 1 /\ srv.sent /\ srv.protocol = "HTTP"

\* Router.handle runs the handler `h` and returns
Handles(h) == srv.pc = "handler" /\ srv'.handler = h /\ srv'.pc = "handled"

\* the handlers whose error Router.handle catches after they sent a response
SendThenThrow == {"thenSend", "thenSse", "thenUpgrade"}

\* nothing is written on the connection in this step
WritesNothing == srv'.lines = srv.lines /\ srv'.status = srv.status

\* one response with code `code` is written in this step, and no other
WritesOne(code) == srv'.lines = srv.lines + 1 /\ srv'.status = code /\ srv'.sent

\* C34: when Router.handle catches an error of a handler, no error handler is
\* registered and the message has neither 'closed' nor 'reset': if no response
\* has been sent exactly one 500 response is written, if one was already sent
\* (before the handler ran, or by the handler before it threw) no further
\* bytes are written, and handle() returns without throwing.
C34_CatchWritesOne500 ==
    [][/\ srv.pc = "handler" /\ srv'.pc # "handler" => srv'.pc = "handled"
       /\ Handles("throws") =>
             IF srv.sent THEN WritesNothing ELSE WritesOne(500)
       /\ \A h \in SendThenThrow : Handles(h) =>
             IF srv.sent THEN WritesNothing
             ELSE srv'.lines = srv.lines + 1 /\ srv'.status # 500]_vars

\* a handler threw before any response was sent, and one 500 was written
C34_Witness ==
    /\ srv.pc = "handled" /\ srv.handler = "throws"
    /\ srv.lines = 1 /\ srv.status = 500 /\ srv.sent

\* C40: a 204 response must not have a body: writeResponse with code 204 and
\* a body fails its assertion without writing anything (so no 204 status line
\* is on the connection), and writeResponse with code 204 and no body is
\* accepted and written.
C40_NoContentHasNoBody ==
    [][~srv.sent =>
         /\ Handles("noContentBody") => srv'.status # 204
         /\ Handles("noContent") => WritesOne(204)]_vars


\* ===================================================================
\* The HTTP engine (client.ts) over a Pipe whose stream is wholly buffered:
\* one engine writes a message with a chunked body, another one reads it
\* ===================================================================
MaxChunks == 2           \* writeChunk calls before endChunked
MaxChunkLen == 2         \* bytes in one chunk

\* the bytes are told apart as far as the code tells them apart: line ends,
\* the characters the parsers look for, and words that contain none of them
HexDigits == <<"0", "1", "2", "3", "4", "5", "6", "7", "8", "9",
               "a", "b", "c", "d", "e", "f">>
ChunkBytes == {"a", "LF"}

RECURSIVE SeqsUpTo(_, _)
SeqsUpTo(S, n) ==
    IF n = 0 THEN {<<>>}
    ELSE LET shorter == SeqsUpTo(S, n - 1)
         IN shorter \cup {Append(q, x) : q \in shorter, x \in S}

RECURSIVE Concat(_)
Concat(ss) == IF ss = <<>> THEN <<>> ELSE Head(ss) \o Concat(Tail(ss))

\* String.prototype.toLowerCase on the header names in use
toLowerCase(w) ==
    CASE w = "Transfer-Encoding" -> "transfer-encoding"
      [] w = "Trailer" -> "trailer"
      [] w = "X-Sum" -> "x-sum"
      [] w = "Content-Type" -> "content-type"
      [] w = "Cache-Control" -> "cache-control"
      [] w = "Connection" -> "connection"
      [] w = "Content-Length" -> "content-length"
      [] w = "Upgrade" -> "upgrade"
      [] OTHER -> w

\* Number.prototype.toString(16)
RECURSIVE toString16(_)
toString16(n) ==
    IF n < 16 THEN <<HexDigits[n + 1]>>
    ELSE Append(toString16(n \div 16), HexDigits[(n % 16) + 1])

IsHex(b) == \E d \in DOMAIN HexDigits : HexDigits[d] = b
HexValue(b) == (CHOOSE d \in DOMAIN HexDigits : HexDigits[d] = b) - 1

\* the match of /^([0-9a-fA-F]+)/ : the leading hexadecimal digits of a line
RECURSIVE HexPrefix(_)
HexPrefix(line) ==
    IF line # <<>> /\ IsHex(Head(line))
    THEN <<Head(line)>> \o HexPrefix(Tail(line)) ELSE <<>>

\* parseInt(digits, 16)
RECURSIVE parseInt16(_)
parseInt16(ds) ==
    IF ds = <<>> THEN 0
    ELSE 16 * parseInt16(SubSeq(ds, 1, Len(ds) - 1)) + HexValue(ds[Len(ds)])

\* Pipe.writeLine(line): the line and the line end it appends
writeLine(line) == line \o <<"LF">>

\* Pipe.readline on the buffered stream w: the line up to the first LF or CRLF
\* and the rest; at the end of the stream the remaining bytes, or null
readline(w) ==
    LET i == NewlineIndex(w)
    IN  IF i # 0
        THEN [line |-> SubSeq(w, 1, i - 1), null |-> FALSE,
              rest |-> SubSeq(w, i + NewlineLength(w, i), Len(w))]
        ELSE [line |-> w, null |-> w = <<>>, rest |-> <<>>]

\* Pipe.readExact(size) for size > 0: `size` bytes, fewer at the end of the
\* stream, null when there is none
readExact(w, size) ==
    IF w = <<>> THEN [data |-> <<>>, null |-> TRUE, rest |-> <<>>]
    ELSE IF Len(w) < size THEN [data |-> w, null |-> FALSE, rest |-> <<>>]
    ELSE [data |-> SubSeq(w, 1, size), null |-> FALSE,
          rest |-> SubSeq(w, size + 1, Len(w))]

\* String.prototype.trim on a line of tokens
RECURSIVE TrimLeft(_)
TrimLeft(t) == IF t # <<>> /\ Head(t) = " " THEN TrimLeft(Tail(t)) ELSE t
RECURSIVE TrimRight(_)
TrimRight(t) ==
    IF t # <<>> /\ t[Len(t)] = " " THEN TrimRight(SubSeq(t, 1, Len(t) - 1)) ELSE t
trim(t) == TrimRight(TrimLeft(t))

\* line.indexOf(':'), 0 standing for -1
colonIndex(line) ==
    IF \E i \in DOMAIN line : line[i] = ":"
    THEN Min({i \in DOMAIN line : line[i] = ":"}) ELSE 0

\* the key and the value that parseHeaders and readTrailer take from a line
headerOf(line) ==
    LET ci == colonIndex(line)
        key == trim(SubSeq(line, 1, ci - 1))
    IN  <<[i \in DOMAIN key |-> toLowerCase(key[i])],
          trim(SubSeq(line, ci + 1, Len(line)))>>

\* `${key}: ${value}`
headerLine(key, value) == <<key, ":", " ", value>>

\* what the application hands to the writing engine: the chunks, the trailers
\* for endChunked, whether it announced them with a Trailer header, and
\* whether the message is a request or a response
Trailers == {<<>>, <<(<<"X-Sum", "v">>)>>}
Plans == [chunks : SeqsUpTo(SeqsUpTo(ChunkBytes, MaxChunkLen), MaxChunks),
          trailers : Trailers, declared : BOOLEAN, role : {"client", "server"}]

ChunkedEngine(plan) ==
    [mode |-> "chunked", plan |-> plan, wpc |-> "head", next |-> 1,
     wprotocol |-> "HTTP", wire |-> <<>>, lines |-> <<>>,
     state |-> "IDLE", protocol |-> "HTTP", chunked |-> FALSE,
     expecttrailer |-> FALSE, bodyremaining |-> 0, headers |-> {}, got |-> <<>>]

\* the writing engine calls pipe.writeLine for each of `ls` in turn
writeLines(e, ls) ==
    [e EXCEPT !.wire = @ \o Concat([i \in DOMAIN ls |-> writeLine(ls[i])]),
              !.lines = @ \o [i \in DOMAIN ls |-> writeLine(ls[i])]]

\* writeHeaders without a body: the keys in lower case, a content-length of 0
\* for an HTTP message that has neither content-length nor transfer-encoding,
\* one line for each value, a blank line
writeHeaders(e, hs) ==
    LET normalized == [i \in DOMAIN hs |-> <<toLowerCase(hs[i][1]), hs[i][2]>>]
        sized == \E i \in DOMAIN normalized :
                    normalized[i][1] \in {"content-length", "transfer-encoding"}
        all == IF e.wprotocol = "HTTP" /\ ~sized
               THEN Append(normalized, <<"content-length", "0">>) ELSE normalized
    IN  writeLines(e, [i \in DOMAIN all |-> headerLine(all[i][1], all[i][2])]
                      \o << <<>> >>)

\* writeRequest / writeResponse without a body: the first line, the headers
writeHead(e) ==
    LET first == IF e.plan.role = "client"
                 THEN <<"POST", " ", "/", " ", "HTTP/1.1">>
                 ELSE <<"HTTP/1.1", " ", "200", " ", "OK">>
        hs == << <<"Transfer-Encoding", "chunked">> >> \o
              (IF e.plan.declared THEN << <<"Trailer", "X-Sum">> >> ELSE <<>>)
    IN  [writeHeaders(writeLines(e, <<first>>), hs) EXCEPT !.wpc = "chunks"]

\* writeChunk(data): the size line, the data, a blank line
writeChunk(e, data) ==
    LET e1 == writeLines(e, <<toString16(Len(data))>>)
        e2 == [e1 EXCEPT !.wire = @ \o data]
    IN  [writeLines(e2, << <<>> >>) EXCEPT !.next = @ + 1]

\* endChunked(trailers): the line `0`, the trailer lines, a blank line
endChunked(e, trailers) ==
    LET ls == << <<"0">> >> \o
              [i \in DOMAIN trailers |-> headerLine(trailers[i][1], trailers[i][2])]
              \o << <<>> >>
    IN  [writeLines(e, ls) EXCEPT !.wpc = "done"]

\* parseStatusLine / parseRequestLine: the regular expressions, on tokens
firstLineOk(role, line) ==
    IF role = "client"   \* the peer wrote a request
    THEN Len(line) = 5 /\ line[1] = "POST" /\ line[2] = " " /\ line[4] = " "
         /\ line[5] = "HTTP/1.1"
    ELSE Len(line) >= 3 /\ line[1] = "HTTP/1.1" /\ line[2] = " " /\ line[3] = "200"

\* parseHeaders: lines up to a blank line or the end of the stream; a line
\* without a colon fails. The result: the headers, the rest, whether it failed
RECURSIVE parseHeaders(_, _)
parseHeaders(w, hs) ==
    LET r == readline(w)
    IN  IF r.null \/ r.line = <<>> THEN [headers |-> hs, rest |-> r.rest, ok |-> TRUE]
        ELSE IF colonIndex(r.line) = 0 THEN [headers |-> hs, rest |-> r.rest, ok |-> FALSE]
        ELSE parseHeaders(r.rest, hs \cup {headerOf(r.line)})

has(hs, key) == \E h \in hs : h[1] = <<key>>

\* getHeader(name): the value of the header, <<>> standing for undefined
getHeader(hs, key) ==
    IF has(hs, key) THEN (CHOOSE h \in hs : h[1] = <<key>>)[2] ELSE <<>>

\* parseInt(t): the number that the leading decimal digits of t denote, NaN
\* when there is none
NaN == -1
IsDigit(b) == IsHex(b) /\ HexValue(b) < 10
RECURSIVE DecPrefix(_)
DecPrefix(t) ==
    IF t # <<>> /\ IsDigit(Head(t)) THEN <<Head(t)>> \o DecPrefix(Tail(t)) ELSE <<>>
RECURSIVE DecValue(_)
DecValue(ds) ==
    IF ds = <<>> THEN 0
    ELSE 10 * DecValue(SubSeq(ds, 1, Len(ds) - 1)) + HexValue(ds[Len(ds)])
parseInt(t) == IF DecPrefix(t) = <<>> THEN NaN ELSE DecValue(DecPrefix(t))

\* analyzeheaders on the headers just parsed: the websocket upgrade, which
\* returns early; the SSE content type; $chunked and $expecttrailer, assigned
\* only when there is a Transfer-Encoding header; $bodyremaining, assigned only
\* when $chunked is false and there is a Content-Length header. What is not
\* assigned keeps the value it has. An invalid Content-Length throws (ERROR)
analyzeheaders(e) ==
    LET hs == e.headers
        transferEncoding == getHeader(hs, "transfer-encoding")
        contentLength == getHeader(hs, "content-length")
        connection == getHeader(hs, "connection")
        upgrade == getHeader(hs, "upgrade")
        e1 == IF getHeader(hs, "content-type") = <<"text/event-stream">>
              THEN [e EXCEPT !.protocol = "SSE"] ELSE e
        e2 == IF transferEncoding # <<>>
              THEN [e1 EXCEPT !.chunked = (transferEncoding = <<"chunked">>),
                              !.expecttrailer = has(hs, "trailer")]
              ELSE e1
    IN  IF /\ \E i \in DOMAIN connection : toLowerCase(connection[i]) = "upgrade"
           /\ upgrade # <<>> /\ toLowerCase(upgrade[1]) = "websocket"
        THEN [e EXCEPT !.protocol = "WEBSOCKET", !.state = "UPGRADED"]
        ELSE IF ~e2.chunked /\ contentLength # <<>>
        THEN [e2 EXCEPT !.bodyremaining = parseInt(contentLength),
                        !.state = IF parseInt(contentLength) = NaN
                                  THEN "ERROR" ELSE @]
        ELSE e2

\* HTTPClient.start() of the reading engine: first line, headers,
\* analyzeheaders and then `this.$state = ReadState.BODY`; any failure moves
\* it to ERROR
start(e) ==
    LET r == readline(e.wire)
        h == parseHeaders(r.rest, {})
        a == analyzeheaders([e EXCEPT !.wire = h.rest, !.headers = h.headers])
    IN  IF r.null \/ r.line = <<>> \/ ~firstLineOk(e.plan.role, r.line)
        THEN [e EXCEPT !.state = "ERROR", !.wire = r.rest]
        ELSE IF ~h.ok THEN [e EXCEPT !.state = "ERROR", !.wire = h.rest]
        ELSE IF a.state = "ERROR" THEN a
        ELSE [a EXCEPT !.state = "BODY"]

\* readChunk
readChunk(e) ==
    LET sz == readline(e.wire)
        digits == HexPrefix(sz.line)
        chunkSize == parseInt16(digits)
        ch == readExact(sz.rest, chunkSize)
        tr == readline(ch.rest)
    IN  IF sz.null \/ sz.line = <<>> \/ digits = <<>>
        THEN [e EXCEPT !.state = "ERROR", !.wire = sz.rest]
        ELSE IF chunkSize = 0
        THEN [e EXCEPT !.state = IF e.expecttrailer THEN "TRAILER" ELSE "DONE",
                       !.wire = sz.rest]
        ELSE IF ch.null \/ Len(ch.data) # chunkSize
        THEN [e EXCEPT !.state = "ERROR", !.wire = ch.rest]
        ELSE IF tr.null \/ tr.line # <<>>
        THEN [e EXCEPT !.state = "ERROR", !.wire = tr.rest]
        ELSE [e EXCEPT !.got = @ \o ch.data, !.wire = tr.rest]

\* readTrailer: lines up to a blank line or the end of the stream, those
\* without a colon skipped
RECURSIVE trailerLines(_, _)
trailerLines(w, hs) ==
    LET r == readline(w)
    IN  IF r.null \/ r.line = <<>> THEN [headers |-> hs, rest |-> r.rest]
        ELSE IF colonIndex(r.line) = 0 THEN trailerLines(r.rest, hs)
        ELSE trailerLines(r.rest, hs \cup {headerOf(r.line)})

readTrailer(e) ==
    LET t == trailerLines(e.wire, e.headers)
    IN  [e EXCEPT !.headers = t.headers, !.wire = t.rest, !.state = "DONE"]

maxBodyRead == 65536     \* readFixedBody reads at most this many bytes at once

\* readFixedBody: nothing left to read, or the next bytes of the body
readFixedBody(e) ==
    LET chunk == readExact(e.wire, Min({e.bodyremaining, maxBodyRead}))
        left == e.bodyremaining - Len(chunk.data)
    IN  IF e.bodyremaining <= 0 THEN [e EXCEPT !.state = "DONE"]
        ELSE IF chunk.null THEN [e EXCEPT !.state = "ERROR"]
        ELSE [e EXCEPT !.got = @ \o chunk.data, !.wire = chunk.rest,
                       !.bodyremaining = left,
                       !.state = IF left = 0 THEN "DONE" ELSE @]

\* readBody in state BODY or TRAILER
readBody(e) ==
    IF e.state = "TRAILER" THEN readTrailer(e)
    ELSE IF e.chunked THEN readChunk(e)
    ELSE readFixedBody(e)

EngWriteHead ==
    /\ eng.mode = "chunked" /\ eng.wpc = "head"
    /\ eng' = writeHead(eng)
    /\ UNCHANGED notEngine

EngWriteChunk ==
    /\ eng.mode = "chunked" /\ eng.wpc = "chunks"
    /\ eng.next <= Len(eng.plan.chunks)
    /\ eng' = writeChunk(eng, eng.plan.chunks[eng.next])
    /\ UNCHANGED notEngine

EngEndChunked ==
    /\ eng.mode = "chunked" /\ eng.wpc = "chunks"
    /\ eng.next > Len(eng.plan.chunks)
    /\ eng' = endChunked(eng, eng.plan.trailers)
    /\ UNCHANGED notEngine

EngStart ==
    /\ eng.mode = "chunked" /\ eng.wpc = "done" /\ eng.state = "IDLE"
    /\ eng' = start(eng)
    /\ UNCHANGED notEngine

EngReadBody ==
    /\ eng.mode = "chunked" /\ eng.wpc = "done"
    /\ eng.state \in {"BODY", "TRAILER"}
    /\ eng' = readBody(eng)
    /\ UNCHANGED notEngine

ChunkInit ==
    /\ AppNew /\ con = NewConsole /\ pipe = NewPipe
    /\ srv = NewConnection /\ rt = NewRouter /\ sub = NewSubscriber
    /\ \E plan \in Plans : eng = ChunkedEngine(plan)

ChunkNext ==
    \/ EngWriteHead
    \/ EngWriteChunk
    \/ EngEndChunked
    \/ EngStart
    \/ EngReadBody

ChunkSpec == ChunkInit /\ [][ChunkNext]_vars

\* the reading engine has read the message to its end, or has failed
ReadOver == eng.state \in {"DONE", "ERROR"}

TrailersPresent ==
    \A i \in DOMAIN eng.plan.trailers :
        <<(<<toLowerCase(eng.plan.trailers[i][1])>>), <<eng.plan.trailers[i][2]>> >>
            \in eng.headers

\* C15: for every sequence of chunks written with writeChunk and ended with
\* endChunked(trailers), the engine that reads the stream as a chunked body gets
\* from its readBody calls chunks whose concatenation is the concatenation of
\* the written chunks, reaches DONE, and then has every written trailer among
\* its headers.
C15_ChunkedRoundTrip ==
    ReadOver => /\ eng.state = "DONE"
                /\ eng.got = Concat(eng.plan.chunks)
                /\ TrailersPresent

EndsWithCRLF(l) == Len(l) >= 2 /\ l[Len(l) - 1] = "CR" /\ l[Len(l)] = "LF"

\* C20: every line the engine writes (request line, status line, header
\* lines, the blank line after the headers, chunk-size lines, chunk
\* terminators) ends with CR LF.
C20_LinesEndWithCRLF ==
    \A i \in DOMAIN eng.lines : EndsWithCRLF(eng.lines[i])


\* ===================================================================
\* The reading engine on a kept-alive connection (client.ts): a peer has sent
\* up to MaxMessages requests, the last of them perhaps cut short by the end
\* of the stream; the engine reads each with start() and readBody(), and
\* between two of them the connection loop calls reuse()
\* ===================================================================
MaxMessages == 2         \* requests on the connection
MaxBody == 2             \* bytes in the body of a request
MaxCut == 2              \* bytes of the last request lost to the end of the stream

\* a request: how its headers frame the body, and the bytes of the body
RequestKinds ==
    [framing : {"chunked", "trailer", "length"}, n : 0..MaxBody]
        \cup [framing : {"none", "upgrade"}, n : {0}]

Body(n) == [i \in 1..n |-> "a"]

\* the lines of the head of the request m, as the peer sent them
headLines(m) ==
    << <<"POST", " ", "/", " ", "HTTP/1.1">> >> \o
    (CASE m.framing = "chunked" ->
            << headerLine("Transfer-Encoding", "chunked") >>
       [] m.framing = "trailer" ->
            << headerLine("Transfer-Encoding", "chunked"),
               headerLine("Trailer", "X-Sum") >>
       [] m.framing = "length" ->
            << headerLine("Content-Length", HexDigits[m.n + 1]) >>
       [] m.framing = "upgrade" ->
            << headerLine("Connection", "Upgrade"),
               headerLine("Upgrade", "websocket") >>
       [] OTHER -> <<>>)
    \o << <<>> >>

\* the bytes after the head: the body itself, or one chunk with it and the end
\* of the chunks, in the format of writeChunk and endChunked
bodyBytes(m) ==
    IF m.framing \in {"chunked", "trailer"}
    THEN (IF m.n > 0
          THEN writeLine(toString16(m.n)) \o Body(m.n) \o writeLine(<<>>)
          ELSE <<>>)
         \o writeLine(<<"0">>)
         \o (IF m.framing = "trailer" THEN writeLine(headerLine("X-Sum", "v"))
              ELSE <<>>)
         \o writeLine(<<>>)
    ELSE Body(m.n)

MessageBytes(m) ==
    Concat([i \in DOMAIN headLines(m) |-> writeLine(headLines(m)[i])])
        \o bodyBytes(m)

\* the bytes of the first i requests
Sent(msgs, i) == Concat([j \in 1..i |-> MessageBytes(msgs[j])])

\* what arrives: the requests without the last `cut` bytes
Stream(msgs, cut) ==
    SubSeq(Sent(msgs, Len(msgs)), 1, Len(Sent(msgs, Len(msgs))) - cut)

\* new HTTPClient(pipe, ROLE_SERVER) with its fields as the class declares
\* them; `msg` counts the calls of start(), `got` and `readDone` are what
\* readBody returned and how often `readDone` was emitted since the last one
ReaderEngine(msgs, cut) ==
    [mode |-> "reader", plan |-> [role |-> "client", msgs |-> msgs, cut |-> cut],
     wire |-> Stream(msgs, cut), state |-> "IDLE", protocol |-> "HTTP",
     chunked |-> FALSE, expecttrailer |-> FALSE, bodyremaining |-> 0,
     headers |-> {}, got |-> <<>>, msg |-> 0, readDone |-> 0]

RdStart ==
    /\ eng.mode = "reader" /\ eng.state = "IDLE"
    /\ eng' = [start(eng) EXCEPT !.msg = @ + 1, !.got = <<>>, !.readDone = 0]
    /\ UNCHANGED notEngine

\* readBody(); every assignment of DONE is followed by emit('readDone')
RdReadBody ==
    /\ eng.mode = "reader" /\ eng.state \in {"BODY", "TRAILER"}
    /\ LET r == readBody(eng)
       IN  eng' = [r EXCEPT !.readDone = @ + IF r.state = "DONE" THEN 1 ELSE 0]
    /\ UNCHANGED notEngine

\* reuse() after the response has been sent: its assertion on DONE, $state
RdReuse ==
    /\ eng.mode = "reader" /\ eng.state = "DONE"
    /\ eng.msg < MaxMessages
    /\ eng' = [eng EXCEPT !.state = "IDLE"]
    /\ UNCHANGED notEngine

ReadInit ==
    /\ AppNew /\ con = NewConsole /\ pipe = NewPipe
    /\ srv = NewConnection /\ rt = NewRouter /\ sub = NewSubscriber
    /\ \E msgs \in SeqsUpTo(RequestKinds, MaxMessages) \ {<<>>}, cut \in 0..MaxCut :
          eng = ReaderEngine(msgs, cut)

ReadNext ==
    \/ RdStart
    \/ RdReadBody
    \/ RdReuse

ReadSpec == ReadInit /\ [][ReadNext]_vars

\* the headers of the message that start() has parsed
Parsed == eng.mode = "reader" /\ eng.state \in {"BODY", "TRAILER", "DONE"}
OwnChunked == getHeader(eng.headers, "transfer-encoding") = <<"chunked">>
OwnLength ==
    IF has(eng.headers, "content-length") /\ ~has(eng.headers, "transfer-encoding")
    THEN parseInt(getHeader(eng.headers, "content-length")) ELSE NaN

\* C31: for a message with Content-Length n the chunks that successive
\* readBody calls return total exactly n bytes, the read state becomes DONE
\* exactly when the n-th byte has been returned (at the first call when
\* n = 0), readDone is emitted exactly once, and when the stream ends before
\* n bytes were read the engine enters ERROR and never reaches DONE.
C31_FixedBodyExact ==
    /\ [](Parsed /\ OwnLength # NaN =>
            /\ Len(eng.got) <= OwnLength
            /\ eng.state = "DONE" => Len(eng.got) = OwnLength /\ eng.readDone = 1
            /\ eng.state = "BODY" =>
                  eng.readDone = 0 /\ (OwnLength > 0 => Len(eng.got) < OwnLength))
    /\ [][Parsed /\ OwnLength # NaN /\ eng.state = "BODY" /\ eng' # eng =>
            IF OwnLength = 0 THEN eng'.state = "DONE"
            ELSE IF eng.wire = <<>> THEN eng'.state = "ERROR"
            ELSE Len(eng'.got) > Len(eng.got)]_vars

\* C32: after start() returns on a message whose Connection header contains
\* `upgrade` and whose Upgrade header is `websocket`, the protocol of the
\* engine is WebSocket and its read state is UPGRADED.
C32_UpgradeAfterStart ==
    [][/\ eng.mode = "reader" /\ eng.state = "IDLE" /\ eng'.state # "ERROR"
       /\ getHeader(eng'.headers, "connection") = <<"Upgrade">>
       /\ getHeader(eng'.headers, "upgrade") = <<"websocket">>
       => eng'.protocol = "WEBSOCKET" /\ eng'.state = "UPGRADED"]_vars

\* C37: on a reused connection the framing of the body of each request is
\* determined by the headers of that request only: a request that follows a
\* chunked one and carries Content-Length, or no body, is not read as chunked
\* and does not expect a trailer.
C37_FramingFromOwnHeaders ==
    Parsed =>
       /\ eng.chunked <=> OwnChunked
       /\ eng.expecttrailer => OwnChunked /\ has(eng.headers, "trailer")

\* C38: when readBody reports the end of a chunked body (read state DONE),
\* every byte of that message has been consumed from the pipe, the blank line
\* after the zero-size chunk included, so that what the pipe holds for the
\* next start() begins with the first line of the next message.
C38_ChunkedConsumedWhole ==
    (Parsed /\ eng.state = "DONE" /\ OwnChunked /\ eng.plan.cut = 0
        /\ eng.msg <= Len(eng.plan.msgs))
       => eng.wire = SubSeq(Stream(eng.plan.msgs, 0),
                            Len(Sent(eng.plan.msgs, eng.msg)) + 1,
                            Len(Stream(eng.plan.msgs, 0)))


\* ===================================================================
\* WebSocket messages (client.ts): a peer sends the frames of one fragmented
\* message, a server engine reads them with readWSmessage
\* ===================================================================
MaxFragments == 2        \* data frames of the message
MaxPayload == 2          \* bytes in the payload of one frame

\* enum WSOpcode
CONTINUATION == 0
TEXT == 1
BINARY == 2
CLOSE == 8
PING == 9
PONG == 10

PayloadBytes == {65, 66}
MaskKey == <<37, 250, 33, 61>>   \* a masking key of the peer

\* a ^ b on bytes
RECURSIVE Xor(_, _)
Xor(a, b) ==
    IF a = 0 THEN b ELSE IF b = 0 THEN a
    ELSE 2 * Xor(a \div 2, b \div 2) + (((a % 2) + (b % 2)) % 2)

\* payload[i] ^ maskkey[i % 4], the index i counted from 0
unmask(payload, maskkey) ==
    [i \in DOMAIN payload |-> Xor(payload[i], maskkey[((i - 1) % 4) + 1])]

\* the bytes of one frame as readWSframe takes them apart: FIN and opcode,
\* MASK and payload length, the masking key, the (masked) payload
FrameBytes(fin, opcode, masked, payload) ==
    <<(IF fin THEN 128 ELSE 0) + opcode, (IF masked THEN 128 ELSE 0) + Len(payload)>>
    \o (IF masked THEN MaskKey \o unmask(payload, MaskKey) ELSE payload)

\* the message of the peer: the payloads of its fragments, the opcode of the
\* first, whether the frames are masked, and a PING or PONG frame (opcode 0 for
\* none) with its payload between the first fragment and the second
Payloads == SeqsUpTo(PayloadBytes, MaxPayload)
Messages ==
    [fragments : SeqsUpTo(Payloads, MaxFragments) \ {<<>>},
     opcode : {TEXT, BINARY}, masked : BOOLEAN,
     control : {0, PING, PONG}, data : {<<>>, <<9>>}]

\* the frames of message m in the order of the stream
FramesOf(m) ==
    LET n == Len(m.fragments)
        dataFrame(i) == FrameBytes(i = n, IF i = 1 THEN m.opcode ELSE CONTINUATION,
                                   m.masked, m.fragments[i])
        ctl == IF m.control = 0 \/ n < 2 THEN <<>>
               ELSE FrameBytes(TRUE, m.control, m.masked, m.data)
    IN  dataFrame(1) \o ctl \o Concat([i \in 1..(n - 1) |-> dataFrame(i + 1)])

\* Pipe.read(size) on the buffered bytes w of a connection that is at its end
\* (eof) or silent: with size > 0 readExact, with size 0 everything buffered,
\* or whatever one fill() brings
read(w, size, eof) ==
    IF size > 0
    THEN IF Len(w) >= size \/ eof
         THEN readExact(w, size) @@ [pending |-> FALSE]
         ELSE [data |-> <<>>, null |-> FALSE, rest |-> w, pending |-> TRUE]
    ELSE IF w # <<>>
         THEN [data |-> w, null |-> FALSE, rest |-> <<>>, pending |-> FALSE]
         ELSE [data |-> <<>>, null |-> eof, rest |-> <<>>, pending |-> ~eof]

\* `!x || x.length !== n`
Short(r, n) == r.null \/ Len(r.data) # n

\* the big-endian number in bytes
RECURSIVE BigEndian(_)
BigEndian(bs) ==
    IF bs = <<>> THEN 0
    ELSE 256 * BigEndian(SubSeq(bs, 1, Len(bs) - 1)) + bs[Len(bs)]

\* readWSframe: the frame, or "closed" for `throw new Error("Connection
\* closed")`, or "pending" while a read waits for bytes
readWSframe(w, eof) ==
    LET header == read(w, 2, eof)
        byte1 == header.data[1]
        byte2 == header.data[2]
        fin == byte1 >= 128
        opcode == byte1 % 16
        masked == byte2 >= 128
        len7 == byte2 % 128
        ext == IF len7 = 126 THEN read(header.rest, 2, eof)
               ELSE IF len7 = 127 THEN read(header.rest, 8, eof)
               ELSE [data |-> <<>>, null |-> FALSE, rest |-> header.rest,
                     pending |-> FALSE]
        extBytes == IF len7 = 126 THEN 2 ELSE IF len7 = 127 THEN 8 ELSE 0
        payloadlen == IF len7 = 126 THEN BigEndian(ext.data)
                      ELSE IF len7 = 127 THEN BigEndian(SubSeq(ext.data, 5, 8))
                      ELSE len7
        key == IF masked THEN read(ext.rest, 4, eof)
               ELSE [data |-> <<>>, null |-> FALSE, rest |-> ext.rest,
                     pending |-> FALSE]
        payload == read(key.rest, payloadlen, eof)
        out(st, rest) == [status |-> st, fin |-> FALSE, opcode |-> 0,
                          payload |-> <<>>, rest |-> rest]
    IN  IF header.pending THEN out("pending", w)
        ELSE IF Short(header, 2) THEN out("closed", header.rest)
        ELSE IF ext.pending THEN out("pending", w)
        ELSE IF extBytes > 0 /\ Short(ext, extBytes) THEN out("closed", ext.rest)
        ELSE IF key.pending THEN out("pending", w)
        ELSE IF masked /\ Short(key, 4) THEN out("closed", key.rest)
        ELSE IF payload.pending THEN out("pending", w)
        ELSE IF Short(payload, payloadlen) THEN out("closed", payload.rest)
        ELSE [status |-> "frame", fin |-> fin, opcode |-> opcode,
              payload |-> IF masked THEN unmask(payload.data, key.data)
                          ELSE payload.data,
              rest |-> payload.rest]

\* a server engine after the upgrade, the message the peer sends, how many of
\* its bytes the connection delivers (`wire`) and whether it is closed then
WSEngine(m, cut, eof) ==
    [mode |-> "ws", msg |-> m, whole |-> cut = Len(FramesOf(m)), eof |-> eof,
     wire |-> SubSeq(FramesOf(m), 1, cut),
     state |-> "UPGRADED", wsclosed |-> FALSE,
     wsfragmentopcode |-> 0, wsfragments |-> <<>>,
     wrote |-> <<>>, pc |-> "reading", result |-> [opcode |-> 0, data |-> <<>>],
     raised |-> "none", events |-> {}, endedRejected |-> FALSE]

\* an error leaves readWSmessage: nothing catches it on the way
wsThrow(e, message, rest) ==
    [e EXCEPT !.pc = "threw", !.raised = message, !.wire = rest]

\* one turn of the loop of readWSmessage
readWSmessage(e) ==
    LET frame == readWSframe(e.wire, e.eof)
        e1 == [e EXCEPT !.wire = frame.rest]
        first == [e1 EXCEPT !.wsfragmentopcode = frame.opcode,
                            !.wsfragments = <<frame.payload>>]
        more == [e1 EXCEPT !.wsfragments = Append(@, frame.payload)]
        \* the statements after the data frame was stored
        last(e2) ==
            IF frame.fin /\ e2.wsfragmentopcode # 0
            THEN [e2 EXCEPT !.pc = "returned",
                            !.result = [opcode |-> e2.wsfragmentopcode,
                                        data |-> Concat(e2.wsfragments)],
                            !.wsfragmentopcode = 0, !.wsfragments = <<>>]
            ELSE e2
    IN  IF frame.status = "pending" THEN [e EXCEPT !.pc = "pending"]
        ELSE IF frame.status = "closed"
        THEN wsThrow(e, "Connection closed", frame.rest)
        ELSE IF frame.opcode = CLOSE
        THEN [e1 EXCEPT !.wsclosed = TRUE, !.pc = "null",
                        !.wrote = Append(@, FrameBytes(TRUE, CLOSE, FALSE, <<>>))]
        ELSE IF frame.opcode = PING
        THEN [e1 EXCEPT !.wrote = Append(@, FrameBytes(TRUE, PONG, FALSE,
                                                       frame.payload))]
        ELSE IF frame.opcode = PONG THEN e1
        ELSE IF frame.opcode = CONTINUATION
        THEN IF e.wsfragmentopcode = 0
             THEN wsThrow(e, "Unexpected continuation frame", frame.rest)
             ELSE last(more)
        ELSE IF e.wsfragmentopcode # 0
        THEN wsThrow(e, "Expected continuation frame", frame.rest)
        ELSE IF ~frame.fin THEN last(first)
        ELSE [e1 EXCEPT !.pc = "returned",
                        !.result = [opcode |-> frame.opcode, data |-> frame.payload]]

\* the engine reads the next frame of the message
EngReadWSmessage ==
    /\ eng.mode = "ws" /\ eng.pc = "reading"
    /\ eng' = readWSmessage(eng)
    /\ UNCHANGED notEngine

WsInit ==
    /\ AppNew /\ con = NewConsole /\ pipe = NewPipe
    /\ srv = NewConnection /\ rt = NewRouter /\ sub = NewSubscriber
    /\ \E m \in Messages, eof \in BOOLEAN :
          \E cut \in 0..Len(FramesOf(m)) : eng = WSEngine(m, cut, eof)

WsNext == EngReadWSmessage

WsSpec == WsInit /\ [][WsNext]_vars

\* C13: every I/O or parse failure raised during a read operation of the
\* engine moves readState to ERROR, emits an `error` event, rejects the `ended`
\* promise, and is raised to the caller.
C13_ReadFailureIsError ==
    eng.raised # "none" =>
        /\ eng.pc = "threw"
        /\ eng.state = "ERROR"
        /\ "error" \in eng.events
        /\ eng.endedRejected

\* C16: for a message sent as a first TEXT or BINARY frame and CONTINUATION
\* frames, FIN only on the last, masked or not, with a PING or PONG frame
\* between the fragments, readWSmessage returns one message: its data the
\* fragment payloads joined in order, its opcode that of the first frame.
C16_FragmentsReassembled ==
    eng.whole /\ eng.pc \in {"returned", "threw", "null"} =>
        /\ eng.pc = "returned"
        /\ eng.result = [opcode |-> eng.msg.opcode,
                         data |-> Concat(eng.msg.fragments)]


\* -------------------------------------------------------------------
\* A WebSocket connection over its life (client.ts): the peer, a client, has
\* sent up to MaxFrames whole frames; the application calls readWSmessage
\* again and again, and sendWSmessage, pingWS and closews whenever it likes
\* -------------------------------------------------------------------
MaxFrames == 2           \* frames the peer sends
MaxWrote == 3            \* frames the engine writes
MaxReads == 3            \* calls of readWSmessage

\* the frames of the peer: PING and CLOSE with and without a payload (1000 is
\* the close code 3, 232), PONG, and a whole TEXT message
PeerFrames ==
    {[opcode |-> PING, payload |-> <<>>], [opcode |-> PING, payload |-> <<65>>],
     [opcode |-> PONG, payload |-> <<65>>],
     [opcode |-> CLOSE, payload |-> <<>>], [opcode |-> CLOSE, payload |-> <<3, 232>>],
     [opcode |-> TEXT, payload |-> <<65>>]}

\* the bytes of the frame f of the peer, which masks its frames
PeerBytes(f) == FrameBytes(TRUE, f.opcode, TRUE, f.payload)

\* a server engine after the upgrade and the frames that have arrived;
\* `calls` counts the calls of readWSmessage, `closing` says that a closews
\* has written its frame and not yet set $wsclosed
WSConnection(frames, eof) ==
    [mode |-> "ws", msg |-> frames, whole |-> TRUE, eof |-> eof,
     wire |-> Concat([i \in DOMAIN frames |-> PeerBytes(frames[i])]),
     state |-> "UPGRADED", wsclosed |-> FALSE,
     wsfragmentopcode |-> 0, wsfragments |-> <<>>,
     wrote |-> <<>>, pc |-> "idle", result |-> [opcode |-> 0, data |-> <<>>],
     raised |-> "none", events |-> {}, endedRejected |-> FALSE,
     calls |-> 0, closing |-> FALSE]

\* the application calls readWSmessage: null at once when $wsclosed
WsCall ==
    /\ eng.mode = "ws" /\ eng.pc \in {"idle", "returned", "null"}
    /\ eng.calls < MaxReads
    /\ eng' = [eng EXCEPT !.calls = @ + 1,
                          !.pc = IF eng.wsclosed THEN "null" ELSE "reading"]
    /\ UNCHANGED notEngine

\* sendWSmessage(data): one unmasked TEXT frame
WsSend ==
    /\ eng.mode = "ws" /\ Len(eng.wrote) < MaxWrote
    /\ eng' = [eng EXCEPT !.wrote = Append(@, FrameBytes(TRUE, TEXT, FALSE, <<65>>))]
    /\ UNCHANGED notEngine

\* pingWS(): one PING frame without a payload
WsPing ==
    /\ eng.mode = "ws" /\ Len(eng.wrote) < MaxWrote
    /\ eng' = [eng EXCEPT !.wrote = Append(@, FrameBytes(TRUE, PING, FALSE, <<>>))]
    /\ UNCHANGED notEngine

\* closews() up to the end of `await this.writeWSframe(...)`
WsClose ==
    /\ eng.mode = "ws" /\ Len(eng.wrote) < MaxWrote
    /\ ~eng.wsclosed
    /\ eng' = [eng EXCEPT !.wrote = Append(@, FrameBytes(TRUE, CLOSE, FALSE, <<3, 232>>)),
                          !.closing = TRUE]
    /\ UNCHANGED notEngine

\* closews() after the await: `this.$wsclosed = true`
WsCloseDone ==
    /\ eng.mode = "ws" /\ eng.closing
    /\ eng' = [eng EXCEPT !.wsclosed = TRUE, !.closing = FALSE]
    /\ UNCHANGED notEngine

WsConnInit ==
    /\ AppNew /\ con = NewConsole /\ pipe = NewPipe
    /\ srv = NewConnection /\ rt = NewRouter /\ sub = NewSubscriber
    /\ \E frames \in SeqsUpTo(PeerFrames, MaxFrames), eof \in BOOLEAN :
          eng = WSConnection(frames, eof)

WsConnNext ==
    \/ WsCall
    \/ EngReadWSmessage
    \/ WsSend
    \/ WsPing
    \/ WsClose
    \/ WsCloseDone

WsConnSpec == WsConnInit /\ [][WsConnNext]_vars

\* the frame f is the next one in the bytes that have arrived
NextIs(f) ==
    /\ Len(eng.wire) >= Len(PeerBytes(f))
    /\ SubSeq(eng.wire, 1, Len(PeerBytes(f))) = PeerBytes(f)

\* one turn of the loop of readWSmessage is taken
ReadsOn == eng.pc = "reading" /\ (eng'.wire # eng.wire \/ eng'.pc # eng.pc)

\* the opcode of a frame that was written
OpcodeOf(bytes) == bytes[1] % 16

\* C33: while reading in WebSocket mode a received PING makes the engine
\* write exactly one PONG frame with the same payload and go on reading, a
\* received PONG makes it write nothing, a received CLOSE makes it write one
\* CLOSE frame and return null, and every later readWSmessage returns null
\* without reading from the connection.
C33_ControlFrames ==
    [][/\ ReadsOn => \A f \in PeerFrames : NextIs(f) =>
            CASE f.opcode = PING ->
                    /\ eng'.pc = "reading"
                    /\ eng'.wrote = Append(eng.wrote,
                                           FrameBytes(TRUE, PONG, FALSE, f.payload))
              [] f.opcode = PONG -> eng'.pc = "reading" /\ eng'.wrote = eng.wrote
              [] f.opcode = CLOSE ->
                    /\ eng'.pc = "null"
                    /\ Len(eng'.wrote) = Len(eng.wrote) + 1
                    /\ OpcodeOf(eng'.wrote[Len(eng'.wrote)]) = CLOSE
              [] OTHER -> TRUE
       /\ eng.pc = "null" /\ eng'.calls # eng.calls
             => eng'.pc = "null" /\ eng'.wire = eng.wire /\ eng'.wrote = eng.wrote
      ]_vars

\* C39: after a CLOSE frame has been sent or received on a WebSocket
\* connection (a received one is answered with a CLOSE frame) the engine
\* writes no further data or PING frame on it, and over the life of the
\* connection it writes at most one CLOSE frame.
C39_QuietAfterClose ==
    \A i \in DOMAIN eng.wrote : OpcodeOf(eng.wrote[i]) = CLOSE =>
        \A j \in DOMAIN eng.wrote : j > i =>
            OpcodeOf(eng.wrote[j]) \notin {CONTINUATION, TEXT, BINARY, PING, CLOSE}


\* ===================================================================
\* Server-sent events (client.ts): a server engine upgrades with sse() and
\* sends one message, a client engine parses the response stream
\* ===================================================================
MaxData == 2             \* characters in the data of the message

Undefined == <<"undefined">>
SseChars == {"x", "LF", "CR"}
SseMessages == [data : SeqsUpTo(SseChars, MaxData),
                event : {Undefined, <<>>, <<"e">>},
                id : {Undefined, <<>>, <<"7">>}]

\* `if (event)`: neither undefined nor the empty string
Truthy(t) == t # Undefined /\ t # <<>>

\* data.split('\n')
RECURSIVE split(_, _)
split(t, cur) ==
    IF t = <<>> THEN <<cur>>
    ELSE IF Head(t) = "LF" THEN <<cur>> \o split(Tail(t), <<>>)
    ELSE split(Tail(t), Append(cur, Head(t)))

\* data.join('\n')
RECURSIVE join(_)
join(ls) ==
    IF ls = <<>> THEN <<>>
    ELSE IF Len(ls) = 1 THEN ls[1]
    ELSE ls[1] \o <<"LF">> \o join(Tail(ls))

SSEEngine(m) ==
    [mode |-> "sse", msg |-> m, plan |-> [role |-> "server"],
     wpc |-> "sse", wprotocol |-> "HTTP",
     wstate |-> "BODY", wire |-> <<>>, lines |-> <<>>,
     state |-> "IDLE", protocol |-> "HTTP", chunked |-> FALSE,
     expecttrailer |-> FALSE, bodyremaining |-> 0, headers |-> {}, got |-> <<>>,
     ssebuffer |-> <<>>, pc |-> "start", result |-> [null |-> TRUE]]

\* sse() of the server engine: protocol and state, then the response head
sse(e) ==
    LET e1 == [e EXCEPT !.wprotocol = "SSE", !.wstate = "UPGRADED"]
        e2 == writeLines(e1, << <<"HTTP/1.1", " ", "200", " ", "OK">> >>)
        hs == << <<"Content-Type", "text/event-stream">>,
                 <<"Cache-Control", "no-cache">>,
                 <<"Connection", "keep-alive">> >>
    IN  [writeHeaders(e2, hs) EXCEPT !.wpc = "send"]

\* sendSSEmessage(data, event, id): the text of the message, written at once
sendSSEmessage(e, data, ev, id) ==
    LET ds == split(data, <<>>)
        message ==
            (IF Truthy(ev) THEN <<"event", ":", " ">> \o ev \o <<"LF">> ELSE <<>>)
            \o (IF Truthy(id) THEN <<"id", ":", " ">> \o id \o <<"LF">> ELSE <<>>)
            \o Concat([i \in DOMAIN ds |-> <<"data", ":", " ">> \o ds[i] \o <<"LF">>])
            \o <<"LF">>
    IN  [e EXCEPT !.wire = @ \o message, !.wpc = "done"]

\* the inner loop of readSSEmessage over the lines of buffer `buf`, with the
\* locals event, data, id and retry in `loc`: a message, or the buffer is used up
RECURSIVE sseLinesLoop(_, _)
sseLinesLoop(buf, loc) ==
    LET lineEnd == IF \E i \in DOMAIN buf : buf[i] = "LF"
                   THEN Min({i \in DOMAIN buf : buf[i] = "LF"}) ELSE 0
        raw == SubSeq(buf, 1, lineEnd - 1)
        rest == SubSeq(buf, lineEnd + 1, Len(buf))
        line == IF raw # <<>> /\ raw[Len(raw)] = "CR"
                THEN SubSeq(raw, 1, Len(raw) - 1) ELSE raw
        ci == colonIndex(line)
        field == SubSeq(line, 1, ci - 1)
        v == SubSeq(line, ci + 1, Len(line))
        value == IF v # <<>> /\ Head(v) = " " THEN Tail(v) ELSE v
    IN  IF lineEnd = 0 THEN [done |-> FALSE, buffer |-> buf, loc |-> loc]
        ELSE IF line = <<>>
        THEN IF loc.data # <<>>
             THEN [done |-> TRUE, buffer |-> rest,
                   loc |-> [loc EXCEPT !.data = join(loc.data)]]
             ELSE sseLinesLoop(rest, loc)
        ELSE IF Head(line) = ":" \/ ci = 0 THEN sseLinesLoop(rest, loc)
        ELSE IF field = <<"event">> THEN sseLinesLoop(rest, [loc EXCEPT !.event = value])
        ELSE IF field = <<"data">>
        THEN sseLinesLoop(rest, [loc EXCEPT !.data = Append(@, value)])
        ELSE IF field = <<"id">> THEN sseLinesLoop(rest, [loc EXCEPT !.id = value])
        ELSE IF field = <<"retry">>
        THEN sseLinesLoop(rest, [loc EXCEPT !.retry = parseInt(value)])
        ELSE sseLinesLoop(rest, loc)

\* the outer loop of readSSEmessage: readBody, then the lines of the buffer
RECURSIVE readSSEloop(_, _)
readSSEloop(e, loc) ==
    LET e1 == IF e.state = "DONE" THEN [e EXCEPT !.got = <<>>]
              ELSE readBody([e EXCEPT !.got = <<>>])
        chunk == e1.got
        parsed == sseLinesLoop(e.ssebuffer \o chunk, loc)
    IN  IF e.state \notin {"DONE", "BODY", "TRAILER"} \/ e1.state = "ERROR"
        THEN [e1 EXCEPT !.pc = "threw"]
        ELSE IF chunk = <<>>
        THEN [e1 EXCEPT !.pc = "returned", !.result = [null |-> TRUE]]
        ELSE IF parsed.done
        THEN [e1 EXCEPT !.pc = "returned", !.ssebuffer = parsed.buffer,
                        !.result = [null |-> FALSE, event |-> parsed.loc.event,
                                    id |-> parsed.loc.id, data |-> parsed.loc.data]]
        ELSE readSSEloop([e1 EXCEPT !.ssebuffer = parsed.buffer], parsed.loc)

readSSEmessage(e) ==
    IF e.protocol # "SSE" THEN [e EXCEPT !.pc = "threw"]
    ELSE readSSEloop(e, [event |-> Undefined, data |-> <<>>, id |-> Undefined,
                         retry |-> NaN])

EngSse ==
    /\ eng.mode = "sse" /\ eng.wpc = "sse"
    /\ eng' = sse(eng)
    /\ UNCHANGED notEngine

EngSendSSEmessage ==
    /\ eng.mode = "sse" /\ eng.wpc = "send"
    /\ eng' = sendSSEmessage(eng, eng.msg.data, eng.msg.event, eng.msg.id)
    /\ UNCHANGED notEngine

\* the client engine reads the head of the response
EngSseStart ==
    /\ eng.mode = "sse" /\ eng.wpc = "done" /\ eng.pc = "start"
    /\ eng' = [start(eng) EXCEPT !.pc = "read"]
    /\ UNCHANGED notEngine

EngReadSSEmessage ==
    /\ eng.mode = "sse" /\ eng.pc = "read"
    /\ eng' = readSSEmessage(eng)
    /\ UNCHANGED notEngine

SseInit ==
    /\ AppNew /\ con = NewConsole /\ pipe = NewPipe
    /\ srv = NewConnection /\ rt = NewRouter /\ sub = NewSubscriber
    /\ \E m \in SseMessages : eng = SSEEngine(m)

SseNext ==
    \/ EngSse
    \/ EngSendSSEmessage
    \/ EngSseStart
    \/ EngReadSSEmessage

SseSpec == SseInit /\ [][SseNext]_vars

\* C17: for a message {event?, id?, data} sent with sendSSEmessage by a server
\* engine after sse(), the client engine that parses the response stream with
\* readSSEmessage returns a message with the same event, id and data, embedded
\* newlines in data included.
C17_SSERoundTrip ==
    eng.pc \in {"returned", "threw"} =>
        /\ eng.pc = "returned"
        /\ eng.result = [null |-> FALSE, event |-> eng.msg.event,
                         id |-> eng.msg.id, data |-> eng.msg.data]


\* ===================================================================
\* The Router trie (router.ts): addroute and matchroute for one method
\* ===================================================================
MaxRoutes == 2           \* routes registered
MaxDepth == 2            \* segments in a route pattern
MaxPath == 3             \* segments in a request path

StaticSegments == {"a", "b"}
ParamSegments == {":p", ":q"}
PathSegments == {"a", "b", "x"}

\* segment.startsWith(':') and segment.slice(1)
IsParam(seg) == seg \in ParamSegments
paramname(seg) == IF seg = ":p" THEN "p" ELSE "q"
ParamNames == {paramname(seg) : seg \in ParamSegments}

\* the route patterns, parsed into segments: a wildcard only as the last
\* segment, no parameter name twice
Patterns ==
    {pat \in SeqsUpTo(StaticSegments \cup ParamSegments \cup {"*"}, MaxDepth) :
        /\ \A i \in DOMAIN pat : pat[i] = "*" => i = Len(pat)
        /\ \A i, j \in DOMAIN pat : IsParam(pat[i]) /\ pat[i] = pat[j] => i = j}

Paths == SeqsUpTo(PathSegments, MaxPath)

\* the edge that addroute follows for a pattern segment
Edge(seg) == IF IsParam(seg) THEN ":" ELSE seg

\* the node that addroute reaches after the first k segments of the pattern
NodeOf(pat, k) == [i \in 1..k |-> Edge(pat[i])]

Lookup(f, n, none) == IF n \in DOMAIN f THEN f[n] ELSE none

\* addroute(method, path, handler) for the route registered as number r
addroute(t, pat, r) ==
    LET created == {NodeOf(pat, k) : k \in 0..Len(pat)}
        \* a parameter child keeps the name it was created with
        named == [n \in DOMAIN t.paramname \cup
                        {NodeOf(pat, k - 1) : k \in {j \in DOMAIN pat : IsParam(pat[j])}}
                    |-> IF n \in DOMAIN t.paramname THEN t.paramname[n]
                        ELSE paramname(pat[Len(n) + 1])]
    IN  [t EXCEPT !.routes = Append(@, pat),
                  !.nodes = @ \cup created,
                  !.paramname = named,
                  !.handler = [n \in DOMAIN @ \cup {NodeOf(pat, Len(pat))} |->
                                  IF n = NodeOf(pat, Len(pat)) THEN r ELSE @[n]]]

NoParams == [n \in ParamNames |-> "none"]

\* the closure `match` of matchroute; `params` is the object it writes to, and
\* the result carries the object as the call left it
RECURSIVE match(_, _, _, _, _)
match(t, segments, node, index, params) ==
    IF index = Len(segments)
    THEN [handler |-> Lookup(t.handler, node, 0), params |-> params]
    ELSE
    LET segment == segments[index + 1]
        staticchild == Append(node, segment)
        tried == IF staticchild \in t.nodes
                 THEN match(t, segments, staticchild, index + 1, params)
                 ELSE [handler |-> 0, params |-> params]
        name == t.paramname[node]
        bound == match(t, segments, Append(node, ":"), index + 1,
                       [tried.params EXCEPT ![name] = segment])
        after == IF node \in DOMAIN t.paramname
                 THEN [bound.params EXCEPT ![name] = "none"] ELSE tried.params
        wildcardchild == Append(node, "*")
    IN  IF tried.handler # 0 THEN tried
        ELSE IF node \in DOMAIN t.paramname /\ bound.handler # 0 THEN bound
        ELSE IF wildcardchild \in t.nodes /\ Lookup(t.handler, wildcardchild, 0) # 0
        THEN [handler |-> t.handler[wildcardchild], params |-> after]
        ELSE [handler |-> 0, params |-> after]

\* matchroute(method, path), null being a result with handler 0
matchroute(t, segments) ==
    LET m == match(t, segments, <<>>, 0, NoParams)
    IN  IF m.handler # 0 THEN m ELSE [handler |-> 0]

RtAddRoute ==
    /\ ~rt.matched
    /\ Len(rt.routes) < MaxRoutes
    /\ \E pat \in Patterns : rt' = addroute(rt, pat, Len(rt.routes) + 1)
    /\ UNCHANGED notRouter

RtMatch ==
    /\ ~rt.matched
    /\ \E segments \in Paths :
          rt' = [rt EXCEPT !.matched = TRUE, !.path = segments,
                           !.result = matchroute(rt, segments)]
    /\ UNCHANGED notRouter

RouterInit ==
    /\ AppNew /\ con = NewConsole /\ pipe = NewPipe
    /\ srv = NewConnection /\ eng = NewEngine /\ rt = NewRouter /\ sub = NewSubscriber

RouterNext == RtAddRoute \/ RtMatch

RouterSpec == RouterInit /\ [][RouterNext]_vars

\* pattern pat matches the path: segment by segment, a wildcard taking one or
\* more remaining segments
Matches(pat, segments) ==
    IF pat # <<>> /\ pat[Len(pat)] = "*"
    THEN /\ Len(segments) >= Len(pat)
         /\ \A i \in 1..(Len(pat) - 1) : IsParam(pat[i]) \/ pat[i] = segments[i]
    ELSE /\ Len(segments) = Len(pat)
         /\ \A i \in DOMAIN pat : IsParam(pat[i]) \/ pat[i] = segments[i]

\* static before parameter before wildcard
Rank(seg) == IF seg = "*" THEN 3 ELSE IF IsParam(seg) THEN 2 ELSE 1

\* of two patterns that match one path, pat1 is tried before pat2
TriedBefore(pat1, pat2) ==
    \E i \in DOMAIN pat1 \cap DOMAIN pat2 :
        /\ Rank(pat1[i]) < Rank(pat2[i])
        /\ \A j \in 1..(i - 1) : Rank(pat1[j]) = Rank(pat2[j])

SameNode(pat1, pat2) == NodeOf(pat1, Len(pat1)) = NodeOf(pat2, Len(pat2))

\* the route that the search order of the claim finds: among the routes that
\* match, the one tried first, the latest registration of its node (0 for none)
Found(routes, segments) ==
    LET M == {r \in DOMAIN routes : Matches(routes[r], segments)}
        first == {r \in M : /\ \A q \in M : ~TriedBefore(routes[q], routes[r])
                            /\ \A q \in DOMAIN routes :
                                  SameNode(routes[q], routes[r]) => q <= r}
    IN  IF first = {} THEN 0 ELSE CHOOSE r \in first : TRUE

\* the parameters that pattern pat declares, bound to the segments of the path
Declared(pat, segments) ==
    [n \in ParamNames |->
        IF \E i \in DOMAIN pat : IsParam(pat[i]) /\ paramname(pat[i]) = n
        THEN segments[CHOOSE i \in DOMAIN pat : IsParam(pat[i]) /\ paramname(pat[i]) = n]
        ELSE "none"]

\* C18: for every set of registered routes and every path, matchroute returns
\* the handler found by trying the static child first, then the parameter
\* child, then the wildcard, backtracking on failure; the params it returns are
\* exactly the parameters declared in the pattern of the matched route, each
\* bound to its path segment, with nothing left from a branch that failed.
C18_MatchAndParams ==
    rt.matched =>
        /\ rt.result.handler = Found(rt.routes, rt.path)
        /\ rt.result.handler # 0 =>
              rt.result.params = Declared(rt.routes[rt.result.handler], rt.path)

====
